---- MODULE Spec2Model ----
(***************************************************************************)
(* Model of the QuakeSiren event-processing and risk-scoring pipeline.     *)
(*                                                                         *)
(* Components modelled:                                                    *)
(*   - the quota-gated access controller of the financial impact oracle    *)
(*     (validateApiKey / createApiKey / recordApiRequest and the           *)
(*     verifyApiKey express middleware);                                   *)
(*   - the on-chain EarthquakeOracleService subscription contract;         *)
(*   - the financial impact cache (generateFinancialImpactData and its     *)
(*     two asynchronous callers) on top of the in-memory event store.      *)
(*                                                                         *)
(* Node.js runs every synchronous stretch of code to completion, so one    *)
(* action is one synchronous stretch: a whole synchronous function, or the *)
(* part of an async function between two awaits.                           *)
(***************************************************************************)
EXTENDS Integers, Sequences, FiniteSets, TLC

\* ------------------------------------------------------------------------
\* Bounds of the model
\* ------------------------------------------------------------------------
MaxRequestLimit == 2
MaxInFlight == 2
MaxCalls == 3
MaxTicks == 2
MaxDirectCalls == 1
MaxBlockTicks == 2
MaxRenewals == 1
MaxRuns == 2
MaxDays == 1
MaxSamples == 3
MaxQuakes == 2
MaxChainTicks == 3
MaxPayments == 2
MaxAssessments == 2
MaxRecords == 3
MaxAlertTicks == 3
MaxAlertSubscriptions == 2
MaxAlertRenewals == 2
MaxProposals == 1
MaxGovernanceTicks == 1

\* ------------------------------------------------------------------------
\* Program constants
\* ------------------------------------------------------------------------
DAY_MS == 86400000
MINUTE_MS == 60000
SECONDS_PER_DAY == 86400
MIN_VERIFICATION_THRESHOLD == 3
MAX_SUBSCRIPTION_MONTHS == 12

\* The clock is observed once a day.
TickMs == DAY_MS

\* durationDays values requested from POST /api-keys.
DurationChoices == {1, 2}

\* Key strings generateRandomApiKey can return.
ApiKeyNames == {"k1"}
NoHeader == "none"
HeaderValues == ApiKeyNames \cup {NoHeader}

VARIABLES
    now,            \* wall clock, milliseconds (new Date())
    apiKeys,        \* Map<string, OracleSubscription>
    pending,        \* per x-api-key header value: metered requests received, middleware not yet run
    consumeLog,     \* per header value: outcomes of the verifyApiKey runs, in order
    issuedLimit,    \* per key: the requestLimit it was issued with
    directCalls,    \* number of recordApiRequest calls made outside the middleware
    lastValidation  \* result of a validateApiKey call made on its own, while it is the latest operation

\* EarthquakeOracleService (the subscription contract)
VARIABLES
    blockTimestamp,              \* block.timestamp, seconds
    subscriptions,               \* mapping(uint256 => Subscription)
    subscriberToSubscriptionIds, \* mapping(address => uint256[])
    apiKeyToSubscriber,          \* mapping(string => address); an absent key is address(0)
    nextSubscriptionId,
    totalActiveSubscriptions,
    totalRequests,
    renewals,                    \* number of renewSubscription transactions so far
    lastTx                       \* the latest transaction that did not revert

\* Event store and financial impact oracle
VARIABLES
    earthquakes,          \* MemStorage.earthquakes: Map<string, Earthquake>
    financialImpactCache, \* Map<string, FinancialImpactData>
    scoreCalls,           \* getFinancialImpactForEarthquake calls, by caller
    returned,             \* per event id: the assessments returned to callers so far
    repeated,             \* per event id: a second or later call has returned an assessment
    notFound              \* event ids for which a call has returned null (404 EARTHQUAKE_NOT_FOUND)

\* Alerts and the ingestion runs
VARIABLES
    alerts,          \* MemStorage.alerts: Map<number, Alert>
    alertIdCounter,  \* MemStorage.alertIdCounter
    runs,            \* the updateEarthquakeData calls, each at the await it is suspended at
    runsStarted,     \* number of updateEarthquakeData calls so far
    finished,        \* the calls (by number) that have returned
    admissions,      \* the earthquakes pushed to newEarthquakes, in order
    rejections,      \* the records passed over because they exist
    verifications    \* the verifyEarthquakeData calls that have returned, with their outcome

\* The market correlation overlay
VARIABLES
    exchangeRates,   \* the series given to the last enrichExchangeRateDataWithEarthquakes call
    quakes,          \* the earthquakes given to it
    currencyPair,    \* the currency pair given to it
    enrichedData     \* the series it returned

\* The risk scoring of events that are not cached
VARIABLES
    assessed,        \* the earthquakes given to generateFinancialImpactData by the call being answered
    assessments      \* per earthquake: the three impacts computed and the FinancialImpactData returned

\* The market-risk request over a time range
VARIABLES
    impactCall,      \* the getEarthquakesWithFinancialImpact call, at its await or idle
    impactReturned   \* what the last call returned, with its range and the store it was called on

\* The EnterpriseRiskAssessmentService contract
VARIABLES
    chainTimestamp,           \* block.timestamp of the latest block, in seconds
    enterpriseSubscriptions,  \* mapping(address => Subscription) subscriptions
    riskAssessments,          \* mapping(uint256 => RiskAssessment) riskAssessments
    nextAssessmentId,         \* uint256 nextAssessmentId
    lastAssessmentCall        \* the latest createRiskAssessment transaction and whether it reverted

\* The metered routes of the oracle API
VARIABLES
    routeCalls,      \* per caller: the route handler that is suspended at its await, or idle
    responses        \* the responses sent, each with the key's budget before, on the request and after

\* The EarthquakeData contract
VARIABLES
    chainEarthquakes,       \* mapping(string => Earthquake) earthquakes; an id that was never written is absent
    hasVerified,            \* mapping(string => mapping(address => bool)), as the set of <<id, address>> that are true
    earthquakeIds,          \* string[] earthquakeIds
    governanceContract,     \* address governanceContract
    verificationThreshold,  \* uint256 verificationThreshold
    earthquakeCount         \* uint256 earthquakeCount

\* The EarthquakeAlertSubscription contract
VARIABLES
    alertTimestamp,                 \* block.timestamp of the latest block, in seconds
    alertSubscriptions,             \* mapping(uint256 => Subscription) subscriptions
    alertNextSubscriptionId,        \* uint256 nextSubscriptionId
    alertTotalActiveSubscriptions,  \* uint256 totalActiveSubscriptions
    alertRenewals                   \* number of renewSubscription transactions so far

\* The EarthquakeDataGovernance contract
VARIABLES
    governanceTimestamp,  \* block.timestamp of the latest block, in seconds
    proposals,            \* mapping(uint256 => Proposal) proposals, hasVoted as the set of addresses that are true
    validators,           \* mapping(address => Validator) validators; an address never added is absent
    validatorCount,       \* uint256 validatorCount
    nextProposalId,       \* uint256 nextProposalId
    minVotesRequired,     \* uint256 minVotesRequired
    removedValidators     \* the addresses removeValidator has removed so far

storeVars == <<now, apiKeys, pending, consumeLog, issuedLimit, directCalls>>

accessVars == <<now, apiKeys, pending, consumeLog, issuedLimit, directCalls, lastValidation>>

oracleVars == <<blockTimestamp, subscriptions, subscriberToSubscriptionIds, apiKeyToSubscriber,
                nextSubscriptionId, totalActiveSubscriptions, totalRequests, renewals, lastTx>>

scoreVars == <<earthquakes, financialImpactCache, scoreCalls, returned, repeated, notFound>>

ingestVars == <<alerts, alertIdCounter, runs, runsStarted, finished, admissions, rejections,
                verifications>>

correlateVars == <<exchangeRates, quakes, currencyPair, enrichedData>>

scoringVars == <<assessed, assessments>>

rangeVars == <<impactCall, impactReturned>>

enterpriseVars == <<chainTimestamp, enterpriseSubscriptions, riskAssessments, nextAssessmentId,
                    lastAssessmentCall>>

routeVars == <<routeCalls, responses>>

dataVars == <<chainEarthquakes, hasVerified, earthquakeIds, governanceContract,
              verificationThreshold, earthquakeCount>>

alertVars == <<alertTimestamp, alertSubscriptions, alertNextSubscriptionId,
               alertTotalActiveSubscriptions, alertRenewals>>

governanceVars == <<governanceTimestamp, proposals, validators, validatorCount, nextProposalId,
                    minVotesRequired, removedValidators>>

contractVars == <<dataVars, alertVars, governanceVars>>

serviceVars == <<correlateVars, scoringVars, rangeVars, enterpriseVars, routeVars, contractVars>>

vars == <<accessVars, oracleVars, scoreVars, ingestVars, serviceVars>>

\* ------------------------------------------------------------------------
\* Access controller: pure parts
\* ------------------------------------------------------------------------
NoValidation == [key |-> NoHeader, valid |-> FALSE, reason |-> "none"]

\* validateApiKey with the budget test written "< 0".
validateApiKey_budgetOffByOne(keys, apiKey, t) ==
    IF apiKey \notin DOMAIN keys
    THEN [valid |-> FALSE, reason |-> "InvalidKey", remainingRequests |-> 0, expiresAt |-> 0]
    ELSE LET subscription == keys[apiKey] IN
         IF ~subscription.active \/ subscription.endDate < t
         THEN [valid |-> FALSE, reason |-> "Expired", remainingRequests |-> 0, expiresAt |-> 0]
         ELSE IF subscription.remainingRequests < 0
         THEN [valid |-> FALSE, reason |-> "QuotaExhausted", remainingRequests |-> 0, expiresAt |-> 0]
         ELSE [valid |-> TRUE, reason |-> "none",
               remainingRequests |-> subscription.remainingRequests,
               expiresAt |-> subscription.endDate]

\* validateApiKey that tests expiry against the start date, i.e. at issuance.
validateApiKey_expiryAtIssuance(keys, apiKey, t) ==
    IF apiKey \notin DOMAIN keys
    THEN [valid |-> FALSE, reason |-> "InvalidKey", remainingRequests |-> 0, expiresAt |-> 0]
    ELSE LET subscription == keys[apiKey] IN
         IF ~subscription.active \/ subscription.endDate < subscription.startDate
         THEN [valid |-> FALSE, reason |-> "Expired", remainingRequests |-> 0, expiresAt |-> 0]
         ELSE IF subscription.remainingRequests <= 0
         THEN [valid |-> FALSE, reason |-> "QuotaExhausted", remainingRequests |-> 0, expiresAt |-> 0]
         ELSE [valid |-> TRUE, reason |-> "none",
               remainingRequests |-> subscription.remainingRequests,
               expiresAt |-> subscription.endDate]

\* validateApiKey: the three early returns and the final valid result.
\* reason names the branch that rejected the key.
validateApiKey(keys, apiKey, t) ==
    IF apiKey \notin DOMAIN keys
    THEN [valid |-> FALSE, reason |-> "InvalidKey", remainingRequests |-> 0, expiresAt |-> 0]
    ELSE LET subscription == keys[apiKey] IN
         IF ~subscription.active \/ subscription.endDate < t
         THEN [valid |-> FALSE, reason |-> "Expired", remainingRequests |-> 0, expiresAt |-> 0]
         ELSE IF subscription.remainingRequests <= 0
         THEN [valid |-> FALSE, reason |-> "QuotaExhausted", remainingRequests |-> 0, expiresAt |-> 0]
         ELSE [valid |-> TRUE, reason |-> "none",
               remainingRequests |-> subscription.remainingRequests,
               expiresAt |-> subscription.endDate]

\* recordApiRequest throws for a key that is not stored.
recordApiRequestThrows(keys, apiKey) == apiKey \notin DOMAIN keys

\* recordApiRequest that charges the request twice.
recordApiRequest_chargeTwice(keys, apiKey, t) ==
    [keys EXCEPT ![apiKey].remainingRequests = @ - 2,
                 ![apiKey].lastRequestDate = t]

\* recordApiRequest: the store after a call that does not throw.
recordApiRequest(keys, apiKey, t) ==
    [keys EXCEPT ![apiKey].remainingRequests = @ - 1,
                 ![apiKey].lastRequestDate = t]

\* createApiKey: the subscription record it stores.
newSubscription(keys, apiKey, durationDays, requestLimit, t) ==
    [id |-> Cardinality(DOMAIN keys) + 1,
     apiKey |-> apiKey,
     startDate |-> t,
     endDate |-> t + durationDays * DAY_MS,
     active |-> TRUE,
     remainingRequests |-> requestLimit,
     lastRequestDate |-> 0]

\* verifyApiKey that reports the remainingRequests read by validateApiKey.
verifyApiKey_staleRemaining(keys, apiKey, t) ==
    IF apiKey = NoHeader
    THEN [status |-> "MissingApiKey", remaining |-> 0, keys |-> keys]
    ELSE LET validation == validateApiKey(keys, apiKey, t) IN
         IF ~validation.valid
         THEN [status |-> validation.reason, remaining |-> 0, keys |-> keys]
         ELSE IF recordApiRequestThrows(keys, apiKey)
         THEN [status |-> "RecordingFailed", remaining |-> 0, keys |-> keys]
         ELSE [status |-> "ok", remaining |-> validation.remainingRequests,
               keys |-> recordApiRequest(keys, apiKey, t)]

\* The verifyApiKey middleware for a header value and a store: the response
\* (status "ok" is next()), the remainingRequests put on the request, and the
\* store it leaves.
verifyApiKey(keys, apiKey, t) ==
    IF apiKey = NoHeader
    THEN [status |-> "MissingApiKey", remaining |-> 0, keys |-> keys]
    ELSE LET validation == validateApiKey(keys, apiKey, t) IN
         IF ~validation.valid
         THEN [status |-> validation.reason, remaining |-> 0, keys |-> keys]
         ELSE IF recordApiRequestThrows(keys, apiKey)
         THEN [status |-> "RecordingFailed", remaining |-> 0, keys |-> keys]
         ELSE LET after == recordApiRequest(keys, apiKey, t) IN
              [status |-> "ok", remaining |-> after[apiKey].remainingRequests, keys |-> after]

CallsMade == LET RECURSIVE Sum(_)
                 Sum(S) == IF S = {} THEN 0
                           ELSE LET h == CHOOSE x \in S : TRUE IN
                                Len(consumeLog[h]) + pending[h] + Sum(S \ {h})
             IN Sum(HeaderValues)

InFlight == LET RECURSIVE Sum(_)
                Sum(S) == IF S = {} THEN 0
                          ELSE LET h == CHOOSE x \in S : TRUE IN pending[h] + Sum(S \ {h})
            IN Sum(HeaderValues)

\* ------------------------------------------------------------------------
\* Access controller: actions
\* ------------------------------------------------------------------------
InitAccess ==
    /\ now = 0
    /\ apiKeys = <<>>
    /\ pending = [h \in HeaderValues |-> 0]
    /\ consumeLog = [h \in HeaderValues |-> <<>>]
    /\ issuedLimit = [k \in ApiKeyNames |-> 0]
    /\ directCalls = 0
    /\ lastValidation = NoValidation

\* The wall clock advances.
Tick ==
    /\ now < MaxTicks * TickMs
    /\ now' = now + TickMs
    /\ lastValidation' = NoValidation
    /\ UNCHANGED <<apiKeys, pending, consumeLog, issuedLimit, directCalls, oracleVars, scoreVars, ingestVars, serviceVars>>

\* POST /api-keys -> createApiKey.  generateRandomApiKey draws a key that is
\* taken to be unused; the route's schema admits requestLimit >= 1 and
\* durationDays >= 1.
CreateApiKey ==
    \E apiKey \in ApiKeyNames \ DOMAIN apiKeys,
       durationDays \in DurationChoices,
       requestLimit \in 1..MaxRequestLimit :
        /\ apiKeys' = (apiKey :> newSubscription(apiKeys, apiKey, durationDays, requestLimit, now))
                        @@ apiKeys
        /\ issuedLimit' = [issuedLimit EXCEPT ![apiKey] = requestLimit]
        /\ lastValidation' = NoValidation
        /\ UNCHANGED <<now, pending, consumeLog, directCalls, oracleVars, scoreVars, ingestVars, serviceVars>>

\* A validateApiKey that stamps the subscription it looked up.
ValidateApiKey_touch(apiKey) ==
    LET validation == validateApiKey(apiKeys, apiKey, now) IN
    /\ lastValidation' = [key |-> apiKey, valid |-> validation.valid,
                          reason |-> validation.reason]
    /\ apiKeys' = IF apiKey \in DOMAIN apiKeys
                  THEN [apiKeys EXCEPT ![apiKey].lastRequestDate = now]
                  ELSE apiKeys
    /\ UNCHANGED <<now, pending, consumeLog, issuedLimit, directCalls, oracleVars, scoreVars, ingestVars, serviceVars>>

\* A validateApiKey call on its own.
ValidateApiKey(apiKey) ==
    LET validation == validateApiKey(apiKeys, apiKey, now) IN
    /\ lastValidation' = [key |-> apiKey, valid |-> validation.valid,
                          reason |-> validation.reason]
    /\ UNCHANGED <<storeVars, oracleVars, scoreVars, ingestVars, serviceVars>>

\* A request for a metered route is received; its x-api-key header is fixed.
\* Several requests can be in flight before the middleware of any of them runs.
Arrive(apiKey) ==
    /\ InFlight < MaxInFlight
    /\ CallsMade < MaxCalls
    /\ pending' = [pending EXCEPT ![apiKey] = @ + 1]
    /\ lastValidation' = NoValidation
    /\ UNCHANGED <<now, apiKeys, consumeLog, issuedLimit, directCalls, oracleVars, scoreVars, ingestVars, serviceVars>>

\* verifyApiKey runs for one of the requests in flight: one synchronous
\* stretch.  The log entry keeps how many other requests with the same key
\* were in flight while it ran.
VerifyApiKey(apiKey) ==
    /\ pending[apiKey] > 0
    /\ LET out == verifyApiKey(apiKeys, apiKey, now) IN
        /\ apiKeys' = out.keys
        /\ pending' = [pending EXCEPT ![apiKey] = @ - 1]
        /\ consumeLog' = [consumeLog EXCEPT ![apiKey] =
                             Append(@, [status |-> out.status, remaining |-> out.remaining,
                                        concurrent |-> pending[apiKey] - 1])]
    /\ lastValidation' = NoValidation
    /\ UNCHANGED <<now, issuedLimit, directCalls, oracleVars, scoreVars, ingestVars, serviceVars>>

\* recordApiRequest called on its own (it is exported), without validateApiKey.
RecordApiRequestDirect(apiKey) ==
    /\ directCalls < MaxDirectCalls
    /\ directCalls' = directCalls + 1
    /\ IF recordApiRequestThrows(apiKeys, apiKey)
       THEN apiKeys' = apiKeys
       ELSE apiKeys' = recordApiRequest(apiKeys, apiKey, now)
    /\ lastValidation' = NoValidation
    /\ UNCHANGED <<now, pending, consumeLog, issuedLimit, oracleVars, scoreVars, ingestVars, serviceVars>>

\* ------------------------------------------------------------------------
\* EarthquakeOracleService: pure parts
\* ------------------------------------------------------------------------
Addresses == {"a1", "a2"}

\* Subscription ids the contract hands out within a run.
SubscriptionIds == {1, 2}

\* Arguments the transactions are sent with.
DaysChoices == {1}
RequestsPerDayChoices == {1}
AdditionalRequestsChoices == {1}

NoTx == [op |-> "none", id |-> 0, days |-> 0, requests |-> 0]

\* generateApiKey: a hash of (subscriber, timestamp) and of nothing else.
generateApiKey(subscriber, timestamp) == <<subscriber, timestamp>>

\* modifier validSubscription: the id has been created.
validSubscription(id) == id \in DOMAIN subscriptions

\* The subscriptions of a sender that makeOracleRequest can charge, in the
\* order of subscriberToSubscriptionIds.
Chargeable(sender) ==
    SelectSeq(subscriberToSubscriptionIds[sender],
              LAMBDA id : /\ subscriptions[id].active
                          /\ subscriptions[id].endTime > blockTimestamp
                          /\ subscriptions[id].remainingRequests > 0)

\* renewSubscription that sets the budget to the added requests.
renewedSubscription_resetBudget(subscription, days, additionalRequests, t) ==
    LET additionalDuration == days * SECONDS_PER_DAY
        timed == IF days > 0
                 THEN IF subscription.endTime < t
                      THEN [subscription EXCEPT !.endTime = t + additionalDuration,
                                                !.active = TRUE]
                      ELSE [subscription EXCEPT !.endTime = @ + additionalDuration]
                 ELSE subscription
    IN IF additionalRequests > 0
       THEN [timed EXCEPT !.remainingRequests = additionalRequests]
       ELSE timed

\* renewSubscription's update of the subscription record.
renewedSubscription(subscription, days, additionalRequests, t) ==
    LET additionalDuration == days * SECONDS_PER_DAY
        timed == IF days > 0
                 THEN IF subscription.endTime < t
                      THEN [subscription EXCEPT !.endTime = t + additionalDuration,
                                                !.active = TRUE]
                      ELSE [subscription EXCEPT !.endTime = @ + additionalDuration]
                 ELSE subscription
    IN IF additionalRequests > 0
       THEN [timed EXCEPT !.remainingRequests = @ + additionalRequests]
       ELSE timed

\* ------------------------------------------------------------------------
\* EarthquakeOracleService: transactions (a reverted transaction changes
\* nothing and is not a step; msg.value covers the fee)
\* ------------------------------------------------------------------------
InitOracle ==
    /\ blockTimestamp = 0
    /\ subscriptions = <<>>
    /\ subscriberToSubscriptionIds = [a \in Addresses |-> <<>>]
    /\ apiKeyToSubscriber = <<>>
    /\ nextSubscriptionId = 1
    /\ totalActiveSubscriptions = 0
    /\ totalRequests = 0
    /\ renewals = 0
    /\ lastTx = NoTx

\* A later block.
AdvanceBlock ==
    /\ blockTimestamp < MaxBlockTicks * SECONDS_PER_DAY
    /\ blockTimestamp' = blockTimestamp + SECONDS_PER_DAY
    /\ lastTx' = NoTx
    /\ UNCHANGED <<subscriptions, subscriberToSubscriptionIds, apiKeyToSubscriber,
                   nextSubscriptionId, totalActiveSubscriptions, totalRequests, renewals>>
    /\ UNCHANGED <<accessVars, scoreVars, ingestVars, serviceVars>>

createSubscription(sender) ==
    \E days \in DaysChoices, requestsPerDay \in RequestsPerDayChoices :
        LET apiKey == generateApiKey(sender, blockTimestamp)
            id == nextSubscriptionId IN
        /\ nextSubscriptionId \in SubscriptionIds
        /\ nextSubscriptionId' = nextSubscriptionId + 1
        /\ subscriptions' = (id :> [id |-> id,
                                    subscriber |-> sender,
                                    apiKey |-> apiKey,
                                    startTime |-> blockTimestamp,
                                    endTime |-> blockTimestamp + days * SECONDS_PER_DAY,
                                    active |-> TRUE,
                                    remainingRequests |-> days * requestsPerDay,
                                    lastRequestTime |-> 0]) @@ subscriptions
        /\ subscriberToSubscriptionIds' =
               [subscriberToSubscriptionIds EXCEPT ![sender] = Append(@, id)]
        /\ apiKeyToSubscriber' = (apiKey :> sender) @@ apiKeyToSubscriber
        /\ totalActiveSubscriptions' = totalActiveSubscriptions + 1
        /\ lastTx' = [op |-> "createSubscription", id |-> id, days |-> days,
                      requests |-> days * requestsPerDay]
        /\ UNCHANGED <<blockTimestamp, totalRequests, renewals>>
        /\ UNCHANGED <<accessVars, scoreVars, ingestVars, serviceVars>>

renewSubscription(sender, id) ==
    \E days \in DaysChoices \cup {0}, additionalRequests \in AdditionalRequestsChoices \cup {0} :
        /\ validSubscription(id)
        /\ subscriptions[id].subscriber = sender
        /\ days > 0 \/ additionalRequests > 0
        /\ renewals < MaxRenewals
        /\ renewals' = renewals + 1
        /\ subscriptions' = [subscriptions EXCEPT ![id] =
               renewedSubscription(@, days, additionalRequests, blockTimestamp)]
        /\ totalActiveSubscriptions' =
               IF days > 0 /\ subscriptions[id].endTime < blockTimestamp
               THEN totalActiveSubscriptions + 1
               ELSE totalActiveSubscriptions
        /\ lastTx' = [op |-> "renewSubscription", id |-> id, days |-> days,
                      requests |-> additionalRequests]
        /\ UNCHANGED <<blockTimestamp, subscriberToSubscriptionIds, apiKeyToSubscriber,
                       nextSubscriptionId, totalRequests>>
        /\ UNCHANGED <<accessVars, scoreVars, ingestVars, serviceVars>>

cancelSubscription(sender, id) ==
    /\ validSubscription(id)
    /\ subscriptions[id].subscriber = sender
    /\ subscriptions[id].active
    /\ subscriptions' = [subscriptions EXCEPT ![id].active = FALSE]
    /\ totalActiveSubscriptions' = totalActiveSubscriptions - 1
    /\ apiKeyToSubscriber' =
           [k \in DOMAIN apiKeyToSubscriber \ {subscriptions[id].apiKey} |-> apiKeyToSubscriber[k]]
    /\ lastTx' = [NoTx EXCEPT !.op = "cancelSubscription", !.id = id]
    /\ UNCHANGED <<blockTimestamp, subscriberToSubscriptionIds, nextSubscriptionId,
                   totalRequests, renewals>>
    /\ UNCHANGED <<accessVars, scoreVars, ingestVars, serviceVars>>

\* modifier onlyActiveSubscriber, then the body: the first chargeable
\* subscription of the sender is charged one request.
makeOracleRequest(sender) ==
    /\ Chargeable(sender) # <<>>
    /\ LET subscriptionId == Head(Chargeable(sender)) IN
        /\ subscriptions' = [subscriptions EXCEPT
                                ![subscriptionId].remainingRequests = @ - 1,
                                ![subscriptionId].lastRequestTime = blockTimestamp]
        /\ lastTx' = [NoTx EXCEPT !.op = "makeOracleRequest", !.id = subscriptionId]
    /\ totalRequests' = totalRequests + 1
    /\ UNCHANGED <<blockTimestamp, subscriberToSubscriptionIds, apiKeyToSubscriber,
                   nextSubscriptionId, totalActiveSubscriptions, renewals>>
    /\ UNCHANGED <<accessVars, scoreVars, ingestVars, serviceVars>>

NextOracle ==
    \/ AdvanceBlock
    \/ \E sender \in Addresses : createSubscription(sender)
    \/ \E sender \in Addresses, id \in SubscriptionIds : renewSubscription(sender, id)
    \/ \E sender \in Addresses, id \in SubscriptionIds : cancelSubscription(sender, id)
    \/ \E sender \in Addresses : makeOracleRequest(sender)

\* ------------------------------------------------------------------------
\* Financial impact oracle: the scoring model.  Magnitudes are in hundredths,
\* depths in tenths of a km, impacts in hundredths of a point, times in
\* milliseconds.
\* ------------------------------------------------------------------------
EqIds == {"eq_2", "eq_n"}
Callers == {"c1", "c2"}
NoEarthquake == [id |-> "none"]
Idle == [pc |-> "idle", earthquakeId |-> "none", earthquake |-> NoEarthquake]

\* Math.random() * 20 in tenths, and 0.7 + Math.random() * 0.5 in hundredths.
NoiseChoices == {0, 199}
FactorChoices == {70, 119}

\* Raw records that reach createEarthquake.
InsertChoices ==
    { [place |-> "Tokyo Bay", magnitude |-> 720, depth |-> 80, site |-> "TokyoBay",
       time |-> 0, verified |-> FALSE],
      [place |-> "Mid-Atlantic Ridge", magnitude |-> 450, depth |-> 1000, site |-> "MidAtlantic",
       time |-> 0, verified |-> FALSE] }

\* Magnitudes an updateEarthquake call sets.
MagnitudeChoices == {610}

\* The sample earthquake eq_2 that MemStorage's constructor stores (of the
\* four samples the model keeps this one).
SampleEarthquake ==
    [id |-> "eq_2", place |-> "Tokyo, Japan", magnitude |-> 480, depth |-> 87,
     site |-> "TokyoBay", time |-> 0 - 47 * MINUTE_MS, verified |-> TRUE,
     flareNetworkId |-> "flare456"]

\* Great-circle distance in km from a site to a reference point, as
\* isLocationNearRegion computes it (haversine, R = 6371), rounded.
distanceKm(site, center) ==
    IF site = "TokyoBay"
    THEN CASE center = "Tokyo" -> 0
           [] center = "SanFrancisco" -> 8275
           [] center = "NewYork" -> 10852
           [] center = "London" -> 9559
           [] center = "HongKong" -> 2876
           [] center = "Singapore" -> 5311
           [] center = "Sydney" -> 7826
           [] center = "Shanghai" -> 1754
    ELSE CASE center = "Tokyo" -> 15906
           [] center = "SanFrancisco" -> 10220
           [] center = "NewYork" -> 6334
           [] center = "London" -> 6375
           [] center = "HongKong" -> 15411
           [] center = "Singapore" -> 14878
           [] center = "Sydney" -> 16247
           [] center = "Shanghai" -> 15423

isLocationNearRegion(site, center, radius) == distanceKm(site, center) <= radius

Min(a, b) == IF a < b THEN a ELSE b
Max(a, b) == IF a > b THEN a ELSE b

\* Math.round of x / d for d > 0: floor(x / d + 1/2).
RoundDiv(x, d) == (2 * x + d) \div (2 * d)

\* calculateMagnitudeImpact whose third piece starts at 40.
calculateMagnitudeImpact_lowThirdPiece(magnitude) ==
    IF magnitude < 500 THEN magnitude * 5
    ELSE IF magnitude < 600 THEN 2500 + (magnitude - 500) * 20
    ELSE IF magnitude < 700 THEN 4000 + (magnitude - 600) * 25
    ELSE 7000 + Min(3000, (magnitude - 700) * 15)

calculateMagnitudeImpact(magnitude) ==
    IF magnitude < 500 THEN magnitude * 5
    ELSE IF magnitude < 600 THEN 2500 + (magnitude - 500) * 20
    ELSE IF magnitude < 700 THEN 4500 + (magnitude - 600) * 25
    ELSE 7000 + Min(3000, (magnitude - 700) * 15)

\* calculateDepthImpact without the slope of its first piece.
calculateDepthImpact_flatShallow(depth) ==
    IF depth < 100 THEN 8000
    ELSE IF depth < 300 THEN 6000 + Max(0, 300 - depth) * 10
    ELSE IF depth < 700 THEN 4000 + Max(0, 700 - depth) * 5
    ELSE Max(1000, 10000 - depth * 10)

calculateDepthImpact(depth) ==
    IF depth < 100 THEN 8000 + Max(0, 100 - depth) * 20
    ELSE IF depth < 300 THEN 6000 + Max(0, 300 - depth) * 10
    ELSE IF depth < 700 THEN 4000 + Max(0, 700 - depth) * 5
    ELSE Max(1000, 10000 - depth * 10)

calculateLocationImpact(site) ==
    IF isLocationNearRegion(site, "Tokyo", 500) THEN 9000
    ELSE IF isLocationNearRegion(site, "SanFrancisco", 300) THEN 8500
    ELSE IF isLocationNearRegion(site, "NewYork", 300) THEN 9000
    ELSE IF isLocationNearRegion(site, "London", 300) THEN 8500
    ELSE IF isLocationNearRegion(site, "HongKong", 300) THEN 9000
    ELSE IF isLocationNearRegion(site, "Singapore", 300) THEN 8000
    ELSE 3000

\* getAffectedMarketsAndCurrencies, as sets (the code builds lists in the
\* order of the four regions).
affectedMarkets(site) ==
    LET regional ==
            (IF isLocationNearRegion(site, "Tokyo", 800) THEN {"NIKKEI", "JPX"} ELSE {})
            \cup (IF isLocationNearRegion(site, "SanFrancisco", 800)
                  THEN {"NASDAQ", "NYSE", "SP500"} ELSE {})
            \cup (IF isLocationNearRegion(site, "Sydney", 800) THEN {"ASX200"} ELSE {})
            \cup (IF isLocationNearRegion(site, "Shanghai", 800) THEN {"SSE", "SZSE"} ELSE {})
    IN IF regional = {} THEN {"GLOBAL_MARKETS"} ELSE regional

affectedCurrencies(site) ==
    LET regional ==
            (IF isLocationNearRegion(site, "Tokyo", 800) THEN {"JPY"} ELSE {})
            \cup (IF isLocationNearRegion(site, "SanFrancisco", 800) THEN {"USD"} ELSE {})
            \cup (IF isLocationNearRegion(site, "Sydney", 800) THEN {"AUD"} ELSE {})
            \cup (IF isLocationNearRegion(site, "Shanghai", 800) THEN {"CNY"} ELSE {})
    IN IF regional = {} THEN {"USD", "EUR"} ELSE regional

marketImpactScoreOf(earthquake) ==
    Min(100, RoundDiv(calculateMagnitudeImpact(earthquake.magnitude) * 5
                        + calculateDepthImpact(earthquake.depth) * 2
                        + calculateLocationImpact(earthquake.site) * 3, 1000))

riskLevelOf(marketImpactScore) ==
    IF marketImpactScore < 30 THEN "LOW"
    ELSE IF marketImpactScore < 60 THEN "MEDIUM"
    ELSE IF marketImpactScore < 85 THEN "HIGH"
    ELSE "CRITICAL"

\* The FinancialImpactData built on a cache miss, for one outcome of the
\* Math.random() draws (timestamp, summary and recommendations left out).
computeImpactData(earthquake, noise, factors) ==
    LET marketImpactScore == marketImpactScoreOf(earthquake) IN
    [earthquakeId |-> earthquake.id,
     marketImpactScore |-> marketImpactScore,
     volatilityIndex |-> Min(100, RoundDiv(marketImpactScore * 8 + noise, 10)),
     affectedMarkets |-> affectedMarkets(earthquake.site),
     affectedCurrencies |-> affectedCurrencies(earthquake.site),
     riskLevel |-> riskLevelOf(marketImpactScore),
     marketSpecificScores |->
         [m \in affectedMarkets(earthquake.site) |->
             Min(100, RoundDiv(marketImpactScore * factors[m], 100))]]

\* generateFinancialImpactData that always computes and stores.
generateFinancialImpactData_noCacheCheck(cache, earthquake, noise, factors) ==
    LET impactData == computeImpactData(earthquake, noise, factors) IN
    [data |-> impactData, cache |-> (earthquake.id :> impactData) @@ cache]

\* generateFinancialImpactData that recomputes when the cached score no
\* longer matches the earthquake it is given.
generateFinancialImpactData_staleOnUpdate(cache, earthquake, noise, factors) ==
    IF earthquake.id \in DOMAIN cache
       /\ cache[earthquake.id].marketImpactScore = marketImpactScoreOf(earthquake)
    THEN [data |-> cache[earthquake.id], cache |-> cache]
    ELSE LET impactData == computeImpactData(earthquake, noise, factors) IN
         [data |-> impactData, cache |-> (earthquake.id :> impactData) @@ cache]

\* generateFinancialImpactData: the cached entry if there is one, else a new
\* entry that is stored; one synchronous stretch.
generateFinancialImpactData(cache, earthquake, noise, factors) ==
    IF earthquake.id \in DOMAIN cache
    THEN [data |-> cache[earthquake.id], cache |-> cache]
    ELSE LET impactData == computeImpactData(earthquake, noise, factors) IN
         [data |-> impactData, cache |-> (earthquake.id :> impactData) @@ cache]

\* ------------------------------------------------------------------------
\* Event store and financial impact oracle: actions
\* ------------------------------------------------------------------------
InitScore ==
    /\ earthquakes = ("eq_2" :> SampleEarthquake)
    /\ financialImpactCache = <<>>
    /\ scoreCalls = [c \in Callers |-> Idle]
    /\ returned = [id \in EqIds |-> {}]
    /\ repeated = [id \in EqIds |-> FALSE]
    /\ notFound = {}

\* The Earthquake that MemStorage.createEarthquake builds: the inserted
\* fields and the id (createdAt left out).
newEarthquake(insertEarthquake, id) ==
    [id |-> id,
     place |-> insertEarthquake.place,
     magnitude |-> insertEarthquake.magnitude,
     depth |-> insertEarthquake.depth,
     site |-> insertEarthquake.site,
     time |-> insertEarthquake.time,
     verified |-> insertEarthquake.verified]

\* MemStorage.createEarthquake; the random id is taken to be unused.
createEarthquake ==
    \E id \in EqIds \ DOMAIN earthquakes, insertEarthquake \in InsertChoices :
        /\ earthquakes' = (id :> newEarthquake(insertEarthquake, id)) @@ earthquakes
        /\ UNCHANGED <<financialImpactCache, scoreCalls, returned, repeated, notFound>>
        /\ UNCHANGED <<accessVars, oracleVars, ingestVars, serviceVars>>

\* MemStorage.updateEarthquake with data = {magnitude}.
updateEarthquake(id) ==
    \E magnitude \in MagnitudeChoices :
        /\ id \in DOMAIN earthquakes
        /\ earthquakes' = [earthquakes EXCEPT ![id].magnitude = magnitude]
        /\ UNCHANGED <<financialImpactCache, scoreCalls, returned, repeated, notFound>>
        /\ UNCHANGED <<accessVars, oracleVars, ingestVars, serviceVars>>

\* getFinancialImpactForEarthquake up to its await: the cache lookup, and on
\* a miss the read that storage.getEarthquake does when it is called.
scoreForStart(c, earthquakeId) ==
    /\ scoreCalls[c].pc = "idle"
    /\ IF earthquakeId \in DOMAIN financialImpactCache
       THEN /\ returned' = [returned EXCEPT ![earthquakeId] =
                               @ \cup {financialImpactCache[earthquakeId]}]
            /\ repeated' = [repeated EXCEPT ![earthquakeId] = returned[earthquakeId] # {}]
            /\ UNCHANGED scoreCalls
       ELSE /\ scoreCalls' = [scoreCalls EXCEPT ![c] =
                   [pc |-> "awaiting", earthquakeId |-> earthquakeId,
                    earthquake |-> IF earthquakeId \in DOMAIN earthquakes
                                   THEN earthquakes[earthquakeId] ELSE NoEarthquake]]
            /\ UNCHANGED <<returned, repeated>>
    /\ UNCHANGED <<earthquakes, financialImpactCache, notFound>>
    /\ UNCHANGED <<accessVars, oracleVars, ingestVars, serviceVars>>

\* getFinancialImpactForEarthquake after its await that stores a placeholder
\* entry for an id it did not find.
scoreForResume_cachePlaceholder(c) ==
    /\ scoreCalls[c].pc = "awaiting"
    /\ scoreCalls' = [scoreCalls EXCEPT ![c] = Idle]
    /\ IF scoreCalls[c].earthquake = NoEarthquake
       THEN /\ notFound' = notFound \cup {scoreCalls[c].earthquakeId}
            /\ financialImpactCache' =
                   (scoreCalls[c].earthquakeId :> [earthquakeId |-> scoreCalls[c].earthquakeId])
                       @@ financialImpactCache
            /\ UNCHANGED <<returned, repeated>>
       ELSE \E noise \in NoiseChoices,
               factors \in [affectedMarkets(scoreCalls[c].earthquake.site) -> FactorChoices] :
               LET out == generateFinancialImpactData(financialImpactCache,
                                                      scoreCalls[c].earthquake, noise, factors) IN
               /\ financialImpactCache' = out.cache
               /\ returned' = [returned EXCEPT ![scoreCalls[c].earthquakeId] = @ \cup {out.data}]
               /\ repeated' = [repeated EXCEPT ![scoreCalls[c].earthquakeId] =
                                   returned[scoreCalls[c].earthquakeId] # {}]
               /\ UNCHANGED notFound
    /\ UNCHANGED earthquakes
    /\ UNCHANGED <<accessVars, oracleVars, ingestVars, serviceVars>>

\* getFinancialImpactForEarthquake after its await: null for an unknown id
\* (the route answers 404 EARTHQUAKE_NOT_FOUND), else
\* generateFinancialImpactData on the earthquake that was read.
scoreForResume(c) ==
    /\ scoreCalls[c].pc = "awaiting"
    /\ scoreCalls' = [scoreCalls EXCEPT ![c] = Idle]
    /\ IF scoreCalls[c].earthquake = NoEarthquake
       THEN /\ notFound' = notFound \cup {scoreCalls[c].earthquakeId}
            /\ UNCHANGED <<financialImpactCache, returned, repeated>>
       ELSE \E noise \in NoiseChoices,
               factors \in [affectedMarkets(scoreCalls[c].earthquake.site) -> FactorChoices] :
               LET out == generateFinancialImpactData(financialImpactCache,
                                                      scoreCalls[c].earthquake, noise, factors) IN
               /\ financialImpactCache' = out.cache
               /\ returned' = [returned EXCEPT ![scoreCalls[c].earthquakeId] = @ \cup {out.data}]
               /\ repeated' = [repeated EXCEPT ![scoreCalls[c].earthquakeId] =
                                   returned[scoreCalls[c].earthquakeId] # {}]
               /\ UNCHANGED notFound
    /\ UNCHANGED earthquakes
    /\ UNCHANGED <<accessVars, oracleVars, ingestVars, serviceVars>>

NextScore ==
    \/ createEarthquake
    \/ \E id \in EqIds : updateEarthquake(id)
    \/ \E c \in Callers, id \in EqIds : scoreForStart(c, id)
    \/ \E c \in Callers : scoreForResume(c)

\* ------------------------------------------------------------------------
\* Financial impact cache: properties
\* ------------------------------------------------------------------------
\* C9: all scoreFor calls with one event identity return the identical
\* assessment, whatever noise is drawn and whatever happens in between.
C9_ScoreForIdempotent ==
    \A id \in EqIds : Cardinality(returned[id]) <= 1

\* Two or more calls have returned for an event that was updated after its
\* assessment was cached, so that a fresh computation would differ.
C9_Witness ==
    \E id \in DOMAIN financialImpactCache :
        /\ id \in DOMAIN earthquakes
        /\ repeated[id]
        /\ returned[id] = {financialImpactCache[id]}
        /\ marketImpactScoreOf(earthquakes[id]) # financialImpactCache[id].marketImpactScore
        /\ \A c \in Callers : scoreCalls[c].pc = "idle"

\* C10: the cache write is insert-if-absent: an entry, once written, is
\* never replaced or removed, and every assessment returned for its identity
\* is that entry.
C10_FirstWriterWins ==
    [][\A id \in EqIds :
          /\ id \in DOMAIN financialImpactCache
             => /\ id \in DOMAIN financialImpactCache'
                /\ financialImpactCache'[id] = financialImpactCache[id]
          /\ id \in DOMAIN financialImpactCache'
             => returned'[id] \subseteq {financialImpactCache'[id]}
      ]_vars

\* Two callers missed the cache for the same event and both have resumed:
\* the second found the entry the first had written.
C10_Witness ==
    \E id \in DOMAIN financialImpactCache :
        /\ repeated[id]
        /\ returned[id] = {financialImpactCache[id]}
        /\ \A c \in Callers : scoreCalls[c].pc = "idle"
        /\ \A other \in EqIds \ {id} : returned[other] = {}

\* The fields of a FinancialImpactData the model carries.
ImpactDataFields ==
    {"earthquakeId", "marketImpactScore", "volatilityIndex", "affectedMarkets",
     "affectedCurrencies", "riskLevel", "marketSpecificScores"}

\* A cache entry that is a whole assessment of the event it is filed under.
CompleteAssessment(id, data) ==
    /\ DOMAIN data = ImpactDataFields
    /\ data.earthquakeId = id
    /\ data.riskLevel = riskLevelOf(data.marketImpactScore)
    /\ data.affectedMarkets # {} /\ data.affectedCurrencies # {}
    /\ DOMAIN data.marketSpecificScores = data.affectedMarkets

\* C11: every cache entry is a complete assessment; a call whose lookup
\* starts on an id that is in neither the cache nor the event store reads no
\* event, and a call that read no event returns not-found and leaves the
\* cache and the returned assessments as they were.
C11_UnknownIdNotFound ==
    /\ [](\A id \in DOMAIN financialImpactCache :
              CompleteAssessment(id, financialImpactCache[id]))
    /\ [][\A c \in Callers :
            /\ ( /\ scoreCalls[c].pc = "idle" /\ scoreCalls'[c].pc = "awaiting"
                 /\ scoreCalls'[c].earthquakeId \notin DOMAIN earthquakes )
               => scoreCalls'[c].earthquake = NoEarthquake
            /\ ( /\ scoreCalls[c].pc = "awaiting" /\ scoreCalls'[c].pc = "idle"
                 /\ scoreCalls[c].earthquake = NoEarthquake )
               => /\ scoreCalls[c].earthquakeId \in notFound'
                  /\ financialImpactCache' = financialImpactCache
                  /\ returned' = returned
         ]_vars

\* A call on an id that is not stored has returned not-found while another
\* event has a cached assessment.
C11_Witness ==
    \E id \in notFound :
        /\ id \notin DOMAIN earthquakes
        /\ id \notin DOMAIN financialImpactCache
        /\ financialImpactCache # <<>>
        /\ \A c \in Callers : scoreCalls[c].pc = "idle"

\* ------------------------------------------------------------------------
\* Access controller: properties
\* ------------------------------------------------------------------------
OkEntries(L) == {i \in 1..Len(L) : L[i].status = "ok"}

\* The consume calls made while the key was stored and not expired.
Metered(k) == SelectSeq(consumeLog[k], LAMBDA e : e.status \notin {"InvalidKey", "Expired"})

C3_BudgetNeverNegative ==
    \A k \in DOMAIN apiKeys : apiKeys[k].remainingRequests >= 0

\* C4 (as claimed): validateApiKey reports valid iff the subscription is
\* active, now is strictly before endDate and remainingRequests > 0.
C4_ValidIffStrictlyBeforeEnd ==
    lastValidation.key # NoHeader =>
        ( lastValidation.valid <=>
            /\ lastValidation.key \in DOMAIN apiKeys
            /\ apiKeys[lastValidation.key].active
            /\ now < apiKeys[lastValidation.key].endDate
            /\ apiKeys[lastValidation.key].remainingRequests > 0 )

\* C5: a validateApiKey call, valid or not, changes no subscription record,
\* not the set of stored keys, nor anything else of the controller.
C5_ValidateIsReadOnly ==
    [][lastValidation'.key # NoHeader => UNCHANGED storeVars]_vars

C5_Witness ==
    /\ lastValidation.key \in DOMAIN apiKeys
    /\ lastValidation.valid
    /\ apiKeys[lastValidation.key].remainingRequests < issuedLimit[lastValidation.key]

C7_BudgetMoves ==
    [][ /\ \A k \in DOMAIN apiKeys :
              /\ ( /\ Len(consumeLog'[k]) = Len(consumeLog[k]) + 1
                   /\ consumeLog'[k][Len(consumeLog'[k])].status = "ok" )
                 => apiKeys'[k].remainingRequests = apiKeys[k].remainingRequests - 1
              /\ apiKeys'[k].remainingRequests <= apiKeys[k].remainingRequests
        /\ \A id \in DOMAIN subscriptions :
              /\ (totalRequests' # totalRequests /\ lastTx'.id = id)
                 => subscriptions'[id].remainingRequests = subscriptions[id].remainingRequests - 1
              /\ subscriptions'[id].remainingRequests > subscriptions[id].remainingRequests
                 => /\ renewals' = renewals + 1
                    /\ lastTx'.op = "renewSubscription" /\ lastTx'.id = id
      ]_vars

C7_Witness ==
    /\ lastTx.op = "makeOracleRequest"
    /\ renewals >= 1
    /\ lastTx.id \in DOMAIN subscriptions
    /\ subscriptions[lastTx.id].remainingRequests >= 1
    /\ subscriptions[lastTx.id].lastRequestTime = blockTimestamp

RunIds == 1..2
EventIdPool == {"eq_a", "eq_b", "eq_c", "eq_d", "eq_e", "eq_f"}

\* A number that is missing: arithmetic on undefined gives NaN, and every
\* comparison with NaN is false.
NaN == 0 - 1000000

Abs(x) == IF x < 0 THEN 0 - x ELSE x

\* The time T of the feed's earliest feature: 10 minutes before start-up.
FeedTime == 0 - 10 * MINUTE_MS

\* Features of the feed.  geometry = FALSE is a feature without a geometry
\* object; mag = NaN is a feature without a magnitude.
FeatureA == [place |-> "X", mag |-> 500, time |-> FeedTime, geometry |-> TRUE,
             site |-> "MidAtlantic", depth |-> 100]
FeatureB == [place |-> "X", mag |-> 505, time |-> FeedTime + 2 * MINUTE_MS, geometry |-> TRUE,
             site |-> "MidAtlantic", depth |-> 100]
FeatureC == [place |-> "X", mag |-> 520, time |-> FeedTime, geometry |-> TRUE,
             site |-> "MidAtlantic", depth |-> 100]
FeatureE == [place |-> "Y", mag |-> 350, time |-> FeedTime, geometry |-> TRUE,
             site |-> "TokyoBay", depth |-> 155]
FeatureF == [place |-> "Y", mag |-> 620, time |-> FeedTime + 5 * MINUTE_MS, geometry |-> TRUE,
             site |-> "TokyoBay", depth |-> 155]
FeatureG == [place |-> "Z", mag |-> 450, time |-> FeedTime, geometry |-> FALSE,
             site |-> "MidAtlantic", depth |-> 100]
FeatureH == [place |-> "Z", mag |-> NaN, time |-> FeedTime, geometry |-> TRUE,
             site |-> "MidAtlantic", depth |-> 100]

\* What fetchEarthquakeData may return.
FeedChoices ==
    { <<FeatureA, FeatureB, FeatureC>>,
      <<FeatureH, FeatureE, FeatureF>>,
      <<FeatureG, FeatureA>> }

NoRun == [pc |-> "idle", cycle |-> 0, after |-> {}, rawData |-> <<>>, batch |-> <<>>,
          i |-> 0, exists |-> FALSE, earthquake |-> NoEarthquake, earthquakeId |-> "none"]

\* parseEarthquakeData: one try block around the whole map, so a feature
\* whose geometry cannot be read empties the result; a missing magnitude is
\* copied as it is.
parseEarthquakeData(rawData) ==
    IF \E k \in 1..Len(rawData) : ~rawData[k].geometry
    THEN <<>>
    ELSE [k \in 1..Len(rawData) |->
             [place |-> rawData[k].place,
              magnitude |-> rawData[k].mag,
              depth |-> rawData[k].depth,
              site |-> rawData[k].site,
              time |-> rawData[k].time,
              verified |-> FALSE]]

\* MemStorage.getEarthquakes with magnitude 'all' and region 'global': the
\* earthquakes whose age is at most the time range (the sort is left out,
\* the callers here do not depend on the order).
timeFilter(timeRange) ==
    CASE timeRange = "7d" -> 7 * DAY_MS
      [] timeRange = "30d" -> 30 * DAY_MS
      [] timeRange = "1y" -> 365 * DAY_MS
      [] OTHER -> DAY_MS

getEarthquakes(store, t, timeRange) ==
    {store[id] : id \in {k \in DOMAIN store :
                            store[k].time # NaN /\ t - store[k].time <= timeFilter(timeRange)}}

\* processNewEarthquakes' test with a magnitude tolerance that reaches 0.2.
exists_wideMagnitude(existingEarthquakes, quakeData) ==
    \E existing \in existingEarthquakes :
        /\ existing.place = quakeData.place
        /\ existing.magnitude # NaN /\ quakeData.magnitude # NaN
        /\ Abs(existing.magnitude - quakeData.magnitude) <= 20
        /\ existing.time # NaN /\ quakeData.time # NaN
        /\ Abs(existing.time - quakeData.time) < 5 * MINUTE_MS

\* processNewEarthquakes: existingEarthquakes.some(...).
exists(existingEarthquakes, quakeData) ==
    \E existing \in existingEarthquakes :
        /\ existing.place = quakeData.place
        /\ existing.magnitude # NaN /\ quakeData.magnitude # NaN
        /\ Abs(existing.magnitude - quakeData.magnitude) < 10
        /\ existing.time # NaN /\ quakeData.time # NaN
        /\ Abs(existing.time - quakeData.time) < 5 * MINUTE_MS

\* The InsertAlert with the severity limit moved above 6.0.
alertData_highAbove65(quakeData, id) ==
    [message |-> IF quakeData.magnitude >= 650 THEN "Major Earthquake Warning"
                 ELSE "Moderate Earthquake Alert",
     severity |-> IF quakeData.magnitude >= 650 THEN "high" ELSE "medium",
     magnitude |-> quakeData.magnitude,
     location |-> quakeData.place,
     earthquakeId |-> id,
     active |-> TRUE]

\* The InsertAlert that processNewEarthquakes builds (timestamp left out).
alertData(quakeData, id) ==
    [message |-> IF quakeData.magnitude >= 600 THEN "Major Earthquake Warning"
                 ELSE "Moderate Earthquake Alert",
     severity |-> IF quakeData.magnitude >= 600 THEN "high" ELSE "medium",
     magnitude |-> quakeData.magnitude,
     location |-> quakeData.place,
     earthquakeId |-> id,
     active |-> TRUE]

\* MemStorage.createAlert that does not advance alertIdCounter.
createAlert_sameId(alertMap, counter, insertAlert) ==
    [alerts |-> (counter :> insertAlert) @@ alertMap,
     alertIdCounter |-> counter]

\* MemStorage.createAlert: the alert is stored under the counter's value and
\* the counter advances.
createAlert(alertMap, counter, insertAlert) ==
    [alerts |-> (counter :> insertAlert) @@ alertMap,
     alertIdCounter |-> counter + 1]

\* The sample alert of eq_2 that MemStorage's constructor creates.
SampleAlert ==
    [message |-> "Moderate Earthquake Alert", severity |-> "medium", magnitude |-> 480,
     location |-> "Tokyo, Japan", earthquakeId |-> "eq_2", active |-> TRUE]

\* MemStorage.updateEarthquake(id, data) on a store: data's fields laid over
\* the stored record; an id that is not stored changes nothing.
updatedStore(store, id, data) ==
    IF id \notin DOMAIN store THEN store
    ELSE [store EXCEPT ![id] =
             [f \in DOMAIN store[id] \cup DOMAIN data |->
                 IF f \in DOMAIN data THEN data[f] ELSE store[id][f]]]

InitIngest ==
    /\ alerts = (1 :> SampleAlert)
    /\ alertIdCounter = 2
    /\ runs = [r \in RunIds |-> NoRun]
    /\ runsStarted = 0
    /\ finished = {}
    /\ admissions = <<>>
    /\ rejections = {}
    /\ verifications = {}

\* The position of a run that is at the top of the for loop with index i:
\* past the last record it returns; otherwise it calls storage.getEarthquakes,
\* which reads the store now, and awaits.
atLoop(run, i, store, t) ==
    IF i > Len(run.batch)
    THEN [run EXCEPT !.pc = "atProcessNewEarthquakes", !.i = 0, !.exists = FALSE,
                     !.earthquake = NoEarthquake, !.earthquakeId = "none"]
    ELSE [run EXCEPT !.pc = "atGetEarthquakes", !.i = i,
                     !.exists = exists(getEarthquakes(store, t, "24h"), run.batch[i]),
                     !.earthquake = NoEarthquake, !.earthquakeId = "none"]

ingestFrame == UNCHANGED <<accessVars, oracleVars, financialImpactCache, scoreCalls,
                           returned, repeated, notFound, serviceVars>>

\* A day passes.
Elapse ==
    /\ now < MaxDays * DAY_MS
    /\ now' = now + DAY_MS
    /\ lastValidation' = NoValidation
    /\ UNCHANGED <<apiKeys, pending, consumeLog, issuedLimit, directCalls, oracleVars, scoreVars,
                   ingestVars, serviceVars>>

\* updateEarthquakeData is called (at start-up or by the interval timer): it
\* calls fetchEarthquakeData and awaits.  Nothing looks at whether an
\* earlier call is still running.
updateEarthquakeData(r) ==
    /\ runs[r].pc = "idle"
    /\ \A q \in RunIds : q < r => runs[q].pc # "idle"
    /\ runsStarted < MaxRuns
    /\ \E rawData \in FeedChoices :
          runs' = [runs EXCEPT ![r] =
                      [NoRun EXCEPT !.pc = "atFetchEarthquakeData",
                                    !.cycle = runsStarted + 1,
                                    !.after = finished,
                                    !.rawData = rawData]]
    /\ runsStarted' = runsStarted + 1
    /\ UNCHANGED <<earthquakes, alerts, alertIdCounter, finished, admissions, rejections,
                   verifications>>
    /\ ingestFrame

\* After await fetchEarthquakeData(): parse, enter processNewEarthquakes.
afterFetchEarthquakeData(r) ==
    /\ runs[r].pc = "atFetchEarthquakeData"
    /\ runs' = [runs EXCEPT ![r] =
                   atLoop([runs[r] EXCEPT !.batch = parseEarthquakeData(runs[r].rawData)],
                          1, earthquakes, now)]
    /\ UNCHANGED <<earthquakes, alerts, alertIdCounter, runsStarted, finished,
                   admissions, rejections, verifications>>
    /\ ingestFrame

\* After await storage.getEarthquakes(...): a record that exists is passed
\* over; otherwise storage.createEarthquake stores it under the id that
\* Math.random gave, and the run awaits.
afterGetEarthquakes(r, id) ==
    /\ runs[r].pc = "atGetEarthquakes"
    /\ LET quakeData == runs[r].batch[runs[r].i] IN
       IF runs[r].exists
       THEN /\ rejections' = rejections \cup
                   {[place |-> quakeData.place, magnitude |-> quakeData.magnitude,
                     time |-> quakeData.time, cycle |-> runs[r].cycle]}
            /\ runs' = [runs EXCEPT ![r] = atLoop(runs[r], runs[r].i + 1, earthquakes, now)]
            /\ UNCHANGED earthquakes
       ELSE /\ earthquakes' = (id :> newEarthquake(quakeData, id)) @@ earthquakes
            /\ runs' = [runs EXCEPT ![r] =
                           [runs[r] EXCEPT !.pc = "atCreateEarthquake",
                                           !.earthquake = newEarthquake(quakeData, id)]]
            /\ UNCHANGED rejections
    /\ UNCHANGED <<alerts, alertIdCounter, runsStarted, finished, admissions, verifications>>
    /\ ingestFrame

\* After await storage.createEarthquake(...): the earthquake joins
\* newEarthquakes; for magnitude >= 4.0 storage.createAlert stores an alert
\* and the run awaits.
afterCreateEarthquake(r) ==
    /\ runs[r].pc = "atCreateEarthquake"
    /\ LET quakeData == runs[r].batch[runs[r].i]
           earthquake == runs[r].earthquake
           out == createAlert(alerts, alertIdCounter, alertData(quakeData, earthquake.id)) IN
       /\ admissions' = Append(admissions,
                               [id |-> earthquake.id, place |-> quakeData.place,
                                magnitude |-> quakeData.magnitude, time |-> quakeData.time,
                                cycle |-> runs[r].cycle, after |-> runs[r].after])
       /\ IF quakeData.magnitude >= 400
          THEN /\ alerts' = out.alerts
               /\ alertIdCounter' = out.alertIdCounter
               /\ runs' = [runs EXCEPT ![r].pc = "atCreateAlert"]
          ELSE /\ UNCHANGED <<alerts, alertIdCounter>>
               /\ runs' = [runs EXCEPT ![r] = atLoop(runs[r], runs[r].i + 1, earthquakes, now)]
    /\ UNCHANGED <<earthquakes, runsStarted, finished, rejections, verifications>>
    /\ ingestFrame

\* After await storage.createAlert(...): for magnitude >= 5.0
\* verifyEarthquakeData is called, which reads the earthquake and awaits.
afterCreateAlert(r) ==
    /\ runs[r].pc = "atCreateAlert"
    /\ LET quakeData == runs[r].batch[runs[r].i]
           earthquakeId == runs[r].earthquake.id IN
       IF quakeData.magnitude >= 500
       THEN runs' = [runs EXCEPT ![r] =
                        [runs[r] EXCEPT !.pc = "atGetEarthquake",
                                        !.earthquakeId = earthquakeId,
                                        !.earthquake = IF earthquakeId \in DOMAIN earthquakes
                                                       THEN earthquakes[earthquakeId]
                                                       ELSE NoEarthquake]]
       ELSE runs' = [runs EXCEPT ![r] = atLoop(runs[r], runs[r].i + 1, earthquakes, now)]
    /\ UNCHANGED <<earthquakes, alerts, alertIdCounter, runsStarted, finished,
                   admissions, rejections, verifications>>
    /\ ingestFrame

\* The record verifyEarthquakeData hands to storage.updateEarthquake:
\* {...earthquake, flareVerified: true}.
verifiedData(earthquake) ==
    [f \in DOMAIN earthquake \cup {"flareVerified"} |->
        IF f = "flareVerified" THEN TRUE ELSE earthquake[f]]

\* verifyEarthquakeData after its first await that also retires the alerts
\* of the event it verifies.
afterGetEarthquake_retireAlerts(r) ==
    /\ runs[r].pc = "atGetEarthquake"
    /\ LET earthquake == runs[r].earthquake IN
       IF earthquake = NoEarthquake
       THEN UNCHANGED <<earthquakes, alerts>>
       ELSE /\ earthquakes' = updatedStore(earthquakes, earthquake.id, verifiedData(earthquake))
            /\ alerts' = [a \in DOMAIN alerts |->
                             IF alerts[a].earthquakeId = earthquake.id
                             THEN [alerts[a] EXCEPT !.active = FALSE] ELSE alerts[a]]
    /\ runs' = [runs EXCEPT ![r].pc = "atUpdateEarthquake"]
    /\ UNCHANGED <<alertIdCounter, runsStarted, finished, admissions, rejections, verifications>>
    /\ ingestFrame

\* verifyEarthquakeData after await storage.getEarthquake(...): it calls
\* storage.updateEarthquake with the record it read and flareVerified, and
\* awaits.
afterGetEarthquake(r) ==
    /\ runs[r].pc = "atGetEarthquake"
    /\ LET earthquake == runs[r].earthquake IN
       IF earthquake = NoEarthquake
       THEN UNCHANGED earthquakes
       ELSE earthquakes' = updatedStore(earthquakes, earthquake.id, verifiedData(earthquake))
    /\ runs' = [runs EXCEPT ![r].pc = "atUpdateEarthquake"]
    /\ UNCHANGED <<alerts, alertIdCounter, runsStarted, finished, admissions, rejections,
                   verifications>>
    /\ ingestFrame

\* verifyEarthquakeData returns and processNewEarthquakes goes on with the
\* next record.
afterUpdateEarthquake(r) ==
    /\ runs[r].pc = "atUpdateEarthquake"
    /\ runs' = [runs EXCEPT ![r] = atLoop(runs[r], runs[r].i + 1, earthquakes, now)]
    /\ verifications' = verifications \cup
           {[id |-> runs[r].earthquakeId, cycle |-> runs[r].cycle,
             success |-> runs[r].earthquake # NoEarthquake]}
    /\ UNCHANGED <<earthquakes, alerts, alertIdCounter, runsStarted, finished,
                   admissions, rejections>>
    /\ ingestFrame

\* A rejected storage.getEarthquake that nothing catches: the exception
\* leaves processNewEarthquakes and ends the updateEarthquakeData call.
afterGetEarthquakeRejected_uncaught(r) ==
    /\ runs[r].pc = "atGetEarthquake"
    /\ verifications' = verifications \cup
           {[id |-> runs[r].earthquakeId, cycle |-> runs[r].cycle, success |-> FALSE]}
    /\ finished' = finished \cup {runs[r].cycle}
    /\ runs' = [runs EXCEPT ![r] = NoRun]
    /\ UNCHANGED <<earthquakes, alerts, alertIdCounter, runsStarted, admissions, rejections>>
    /\ ingestFrame

\* The promise of storage.getEarthquake is rejected (IStorage is an interface
\* of promises; MemStorage itself never rejects): verifyEarthquakeData's catch
\* returns {success: false}, nothing is written, and processNewEarthquakes
\* goes on with the next record.
afterGetEarthquakeRejected(r) ==
    /\ runs[r].pc = "atGetEarthquake"
    /\ verifications' = verifications \cup
           {[id |-> runs[r].earthquakeId, cycle |-> runs[r].cycle, success |-> FALSE]}
    /\ runs' = [runs EXCEPT ![r] = atLoop(runs[r], runs[r].i + 1, earthquakes, now)]
    /\ UNCHANGED <<earthquakes, alerts, alertIdCounter, runsStarted, finished,
                   admissions, rejections>>
    /\ ingestFrame

\* After await processNewEarthquakes(...): the new earthquakes are broadcast
\* and the call is over.
afterProcessNewEarthquakes(r) ==
    /\ runs[r].pc = "atProcessNewEarthquakes"
    /\ finished' = finished \cup {runs[r].cycle}
    /\ runs' = [runs EXCEPT ![r] = NoRun]
    /\ UNCHANGED <<earthquakes, alerts, alertIdCounter, runsStarted, admissions, rejections,
                   verifications>>
    /\ ingestFrame

\* The ids considered when Math.random may give any id, used or not.
RandomIds == {"eq_a", "eq_b"}

\* An id that Math.random has not given before (one of them: which one it is
\* makes no difference to what follows).
FreshIds ==
    LET unused == EventIdPool \ DOMAIN earthquakes IN
    IF unused = {} THEN {} ELSE {CHOOSE id \in unused : TRUE}

ingestSteps(r) ==
    \/ afterFetchEarthquakeData(r)
    \/ afterCreateEarthquake(r)
    \/ afterCreateAlert(r)
    \/ afterGetEarthquake(r)
    \/ afterUpdateEarthquake(r)
    \/ afterProcessNewEarthquakes(r)

NextRuns ==
    \/ \E r \in RunIds : updateEarthquakeData(r)
    \/ \E r \in RunIds, id \in FreshIds : afterGetEarthquakes(r, id)
    \/ \E r \in RunIds : ingestSteps(r)

NextIngest ==
    \/ Elapse
    \/ NextRuns

\* One call at a time; Math.random may give an id it has given before.
NextIngestIds ==
    \/ updateEarthquakeData(1)
    \/ \E id \in RandomIds : afterGetEarthquakes(1, id)
    \/ ingestSteps(1)

NextAlerts ==
    \/ NextRuns
    \/ \E id \in EqIds : updateEarthquake(id)

\* The runs with a storage whose getEarthquake may reject.
NextVerify ==
    \/ NextRuns
    \/ \E r \in RunIds : afterGetEarthquakeRejected(r)

\* ------------------------------------------------------------------------
\* Ingestion and alerts: properties
\* ------------------------------------------------------------------------
\* The record of a feature or candidate as the logs keep it.
Sighting(place, magnitude, time) == [place |-> place, magnitude |-> magnitude, time |-> time]

AdmittedSightings(cycles) ==
    {Sighting(admissions[i].place, admissions[i].magnitude, admissions[i].time) :
        i \in {k \in 1..Len(admissions) : admissions[k].cycle \in cycles}}

RejectedSightings(cycles) ==
    {Sighting(x.place, x.magnitude, x.time) : x \in {y \in rejections : y.cycle \in cycles}}

AllCycles == 1..runsStarted

\* The duplicate rule: same place, magnitudes less than 0.1 apart, times less
\* than 5 minutes apart (a missing magnitude or time is not apart from
\* anything by less than some amount).
DuplicateRule(a, b) ==
    /\ a.place = b.place
    /\ NaN \notin {a.magnitude, b.magnitude, a.time, b.time}
    /\ Abs(a.magnitude - b.magnitude) < 10
    /\ Abs(a.time - b.time) < 5 * MINUTE_MS

InWindow(e, t) == t - e.time <= DAY_MS

C13_NoReadmissionInLaterCycle ==
    \A i, j \in 1..Len(admissions) :
        ( /\ i # j
          /\ admissions[i].magnitude # NaN
          /\ admissions[i].place = admissions[j].place
          /\ admissions[i].magnitude = admissions[j].magnitude
          /\ admissions[i].time = admissions[j].time )
        => admissions[i].cycle \notin admissions[j].after

WellFormed(feature) == feature.geometry /\ feature.mag # NaN /\ feature.time # NaN

\* C16 (as claimed): when a call whose feed held a malformed feature is
\* over, every well-formed feature of that feed was admitted or passed over
\* as a duplicate in that call, and no malformed feature was admitted.
C16_OnlyMalformedSkipped ==
    [][\A r \in RunIds :
          ( /\ runs[r].pc = "atProcessNewEarthquakes"
            /\ runs'[r].pc = "idle"
            /\ \E k \in 1..Len(runs[r].rawData) : ~WellFormed(runs[r].rawData[k]) )
          => \A k \in 1..Len(runs[r].rawData) :
                LET feature == runs[r].rawData[k]
                    sighting == Sighting(feature.place, feature.mag, feature.time) IN
                IF WellFormed(feature)
                THEN \/ sighting \in AdmittedSightings({runs[r].cycle})
                     \/ sighting \in RejectedSightings({runs[r].cycle})
                ELSE sighting \notin AdmittedSightings({runs[r].cycle})
      ]_vars

\* C17 (as claimed): createEarthquake gives an id that is not in the store,
\* and the store grows by one.
C17_FreshIdentity ==
    [][\A r \in RunIds :
          ( /\ runs[r].pc = "atGetEarthquakes"
            /\ runs'[r].pc = "atCreateEarthquake" )
          => /\ runs'[r].earthquake.id \notin DOMAIN earthquakes
             /\ Cardinality(DOMAIN earthquakes') = Cardinality(DOMAIN earthquakes) + 1
      ]_vars

\* C18: the step that admits an event creates no alert for magnitude < 4.0,
\* else exactly one alert, active, carrying the event's magnitude, place and
\* id, medium "Moderate Earthquake Alert" below 6.0 and high "Major
\* Earthquake Warning" from 6.0; the alerts there were stay as they are.
C18_AlertClassification ==
    [][\A r \in RunIds :
          ( /\ runs[r].pc = "atCreateEarthquake"
            /\ runs'[r] # runs[r] )
          => LET quakeData == runs[r].batch[runs[r].i]
                 created == DOMAIN alerts' \ DOMAIN alerts IN
             /\ \A a \in DOMAIN alerts : a \in DOMAIN alerts' /\ alerts'[a] = alerts[a]
             /\ IF quakeData.magnitude < 400
                THEN created = {}
                ELSE /\ Cardinality(created) = 1
                     /\ \A a \in created :
                           /\ alerts'[a].active
                           /\ alerts'[a].magnitude = quakeData.magnitude
                           /\ alerts'[a].location = quakeData.place
                           /\ alerts'[a].earthquakeId = runs[r].earthquake.id
                           /\ quakeData.magnitude < 600
                              => /\ alerts'[a].severity = "medium"
                                 /\ alerts'[a].message = "Moderate Earthquake Alert"
                           /\ quakeData.magnitude >= 600
                              => /\ alerts'[a].severity = "high"
                                 /\ alerts'[a].message = "Major Earthquake Warning"
      ]_vars

\* Events of magnitude 3.5, 5.0 and 6.2 have been admitted: none, a medium
\* and a high alert.
C18_Witness ==
    /\ \E i \in 1..Len(admissions) :
          /\ admissions[i].magnitude = 350
          /\ ~\E a \in DOMAIN alerts : alerts[a].earthquakeId = admissions[i].id
    /\ \E i \in 1..Len(admissions) :
          /\ admissions[i].magnitude = 500
          /\ \E a \in DOMAIN alerts :
                alerts[a].earthquakeId = admissions[i].id /\ alerts[a].severity = "medium"
    /\ \E i \in 1..Len(admissions) :
          /\ admissions[i].magnitude = 620
          /\ \E a \in DOMAIN alerts :
                alerts[a].earthquakeId = admissions[i].id /\ alerts[a].severity = "high"

AlertsOf(id) == {a \in DOMAIN alerts : alerts[a].earthquakeId = id}

C20_AlertsNotReevaluated ==
    [][(\E id \in DOMAIN earthquakes :
           id \in DOMAIN earthquakes' /\ earthquakes'[id] # earthquakes[id])
       => /\ alerts' = alerts
          /\ alertIdCounter' = alertIdCounter
      ]_vars

\* An admitted event has been verified and the sample event's magnitude has
\* been raised to 6.1; their alerts are still medium and active.
C20_Witness ==
    /\ earthquakes["eq_2"].magnitude = 610
    /\ alerts[1] = SampleAlert
    /\ \E i \in 1..Len(admissions) :
          /\ admissions[i].magnitude = 500
          /\ "flareVerified" \in DOMAIN earthquakes[admissions[i].id]
          /\ \E a \in AlertsOf(admissions[i].id) :
                alerts[a].severity = "medium" /\ alerts[a].active

\* ------------------------------------------------------------------------
\* Ledger verification during ingestion: properties
\* ------------------------------------------------------------------------
\* The admission of event id by the call numbered cycle.
AdmissionsOf(id, cycle) ==
    {k \in 1..Len(admissions) : admissions[k].id = id /\ admissions[k].cycle = cycle}

\* C21: during ingest verifyEarthquakeData is called only for an admitted
\* event of magnitude >= 5.0, and a failed verification is not fatal: the
\* event stays stored and admitted, the run goes on with the next record of
\* its batch, and when the run is over every record of the batch has been
\* admitted or passed over as existing.
C21_VerificationNeverFatal ==
    /\ [](\A v \in verifications :
             /\ \E k \in AdmissionsOf(v.id, v.cycle) : admissions[k].magnitude >= 500
             /\ ~v.success => v.id \in DOMAIN earthquakes)
    /\ [][\A r \in RunIds :
             /\ (runs[r].pc # "atGetEarthquake" /\ runs'[r].pc = "atGetEarthquake")
                    => \E k \in AdmissionsOf(runs'[r].earthquakeId, runs[r].cycle) :
                           admissions[k].magnitude >= 500
             /\ (runs[r].pc = "atGetEarthquake" /\ runs'[r].pc # "atGetEarthquake"
                 /\ \E v \in verifications' \ verifications : ~v.success)
                    => /\ earthquakes' = earthquakes
                       /\ admissions' = admissions
                       /\ runs'[r].cycle = runs[r].cycle
                       /\ IF runs[r].i < Len(runs[r].batch)
                          THEN runs'[r].pc = "atGetEarthquakes" /\ runs'[r].i = runs[r].i + 1
                          ELSE runs'[r].pc = "atProcessNewEarthquakes"
             /\ (runs[r].pc # "idle" /\ runs'[r].pc = "idle")
                    => \A k \in 1..Len(runs[r].batch) :
                           Sighting(runs[r].batch[k].place, runs[r].batch[k].magnitude,
                                    runs[r].batch[k].time)
                               \in AdmittedSightings({runs[r].cycle})
                                   \cup RejectedSightings({runs[r].cycle})]_vars

\* A verification failed, the event is stored, and the same call admitted a
\* later record of its batch and returned.
C21_Witness ==
    \E v \in verifications :
        /\ ~v.success
        /\ v.id \in DOMAIN earthquakes
        /\ v.cycle \in finished
        /\ \E k \in AdmissionsOf(v.id, v.cycle), m \in 1..Len(admissions) :
              m > k /\ admissions[m].cycle = v.cycle

\* MemStorage.getFlareVerifiedEarthquakes: the stored earthquakes that have a
\* flareNetworkId and whose verified is true.
getFlareVerifiedEarthquakes(store) ==
    {store[id] : id \in {k \in DOMAIN store :
                            /\ "flareNetworkId" \in DOMAIN store[k]
                            /\ store[k].verified}}

\* C28: after verifyEarthquakeData has reported success for a stored event,
\* the event's verified flag is true in the store, so that it is among
\* getFlareVerifiedEarthquakes if it has a ledger id.
C28_VerifiedAfterSuccess ==
    \A v \in verifications :
        (v.success /\ v.id \in DOMAIN earthquakes)
            => /\ earthquakes[v.id].verified
               /\ "flareNetworkId" \in DOMAIN earthquakes[v.id]
                      => earthquakes[v.id] \in getFlareVerifiedEarthquakes(earthquakes)

\* C35 (as claimed): of the candidates one processNewEarthquakes call
\* admits, no later one is a duplicate (same place, magnitudes less than
\* 0.1 apart, times less than 5 minutes apart) of an earlier one.
C35_NoDuplicateWithinBatch ==
    \A m, n \in 1..Len(admissions) :
        (m < n /\ admissions[m].cycle = admissions[n].cycle)
            => ~DuplicateRule(admissions[m], admissions[n])

\* ------------------------------------------------------------------------
\* getEarthquakesWithFinancialImpact, called by POST /market-risk-assessment
\* with the range [now - timeframe, now].
\* ------------------------------------------------------------------------
TimeframeChoices == {"24h", "7d"}

\* startTime of the route for a timeframe, as a distance from endTime.
timeframeMs(timeframe) == IF timeframe = "7d" THEN 7 * DAY_MS ELSE DAY_MS

NoImpactCall == [pc |-> "idle", startTime |-> 0, endTime |-> 0, earthquakes |-> {}, store |-> <<>>]
NoImpactReturned == [startTime |-> 0, endTime |-> 0, store |-> <<>>, result |-> {}, called |-> FALSE]

InitRange ==
    /\ impactCall = NoImpactCall
    /\ impactReturned = NoImpactReturned

\* The call up to its await: storage.getEarthquakes({timeRange: 'custom',
\* magnitude: 'all', region: 'global'}) reads the store when it is called.
getEarthquakesWithFinancialImpact(timeframe) ==
    /\ impactCall.pc = "idle"
    /\ impactCall' = [pc |-> "atGetEarthquakes",
                      startTime |-> now - timeframeMs(timeframe),
                      endTime |-> now,
                      earthquakes |-> getEarthquakes(earthquakes, now, "custom"),
                      store |-> earthquakes]
    /\ UNCHANGED <<impactReturned, accessVars, oracleVars, scoreVars, ingestVars, routeVars, contractVars,
                   correlateVars, scoringVars, enterpriseVars>>

\* quake.time >= startTime && quake.time <= endTime.
filteredEarthquakes(call) ==
    {quake \in call.earthquakes : quake.time >= call.startTime /\ quake.time <= call.endTime}

\* After the await: the range filter, then generateFinancialImpactData for
\* each earthquake that is left.
afterGetEarthquakesForImpact ==
    /\ impactCall.pc = "atGetEarthquakes"
    /\ \E noise \in NoiseChoices, factor \in FactorChoices :
          LET out(quake) == generateFinancialImpactData(
                                financialImpactCache, quake, noise,
                                [m \in affectedMarkets(quake.site) |-> factor])
              filtered == filteredEarthquakes(impactCall) IN
          /\ financialImpactCache' =
                 [id \in DOMAIN financialImpactCache \cup {quake.id : quake \in filtered} |->
                     IF id \in DOMAIN financialImpactCache THEN financialImpactCache[id]
                     ELSE out(CHOOSE quake \in filtered : quake.id = id).data]
          /\ impactReturned' =
                 [startTime |-> impactCall.startTime,
                  endTime |-> impactCall.endTime,
                  store |-> impactCall.store,
                  result |-> {[earthquake |-> quake, financialImpact |-> out(quake).data] :
                                 quake \in filtered},
                  called |-> TRUE]
    /\ impactCall' = NoImpactCall
    /\ UNCHANGED <<earthquakes, scoreCalls, returned, repeated, notFound>>
    /\ UNCHANGED <<accessVars, oracleVars, ingestVars, routeVars, contractVars,
                   correlateVars, scoringVars, enterpriseVars>>

NextRange ==
    \/ Elapse
    \/ createEarthquake
    \/ \E timeframe \in TimeframeChoices : getEarthquakesWithFinancialImpact(timeframe)
    \/ afterGetEarthquakesForImpact

\* C29: getEarthquakesWithFinancialImpact(startTime, endTime) returns every
\* stored event whose time lies in [startTime, endTime], each with its
\* assessment, events older than 24 hours included when the range covers
\* them.
C29_RangeIsReturned ==
    impactReturned.called =>
        /\ \A id \in DOMAIN impactReturned.store :
              (/\ impactReturned.store[id].time >= impactReturned.startTime
               /\ impactReturned.store[id].time <= impactReturned.endTime)
                  => \E x \in impactReturned.result : x.earthquake.id = id
        /\ \A x \in impactReturned.result :
              /\ x.financialImpact.earthquakeId = x.earthquake.id
              /\ DOMAIN x.financialImpact = ImpactDataFields

\* ------------------------------------------------------------------------
\* EnterpriseRiskAssessmentService.sol.  Times are in seconds; the token
\* transfers are taken to succeed (a failed transfer reverts the transaction
\* and leaves the state as it was).
\* ------------------------------------------------------------------------
SUBSCRIPTION_PERIOD == 30 * SECONDS_PER_DAY

\* The value of a mapping entry that was never written.
NoSubscription ==
    [startTime |-> 0, endTime |-> 0, active |-> FALSE, totalPaid |-> 0,
     assessmentCount |-> 0, lastAssessmentTime |-> 0]

NoAssessmentCall == [sender |-> "none", reverted |-> FALSE]

RiskOracle == "oracle"

hasActiveSubscription(subs, subscriber, timestamp) ==
    subs[subscriber].active /\ timestamp <= subs[subscriber].endTime

InitEnterprise ==
    /\ chainTimestamp = SUBSCRIPTION_PERIOD
    /\ enterpriseSubscriptions = [a \in Addresses |-> NoSubscription]
    /\ riskAssessments = <<>>
    /\ nextAssessmentId = 1
    /\ lastAssessmentCall = NoAssessmentCall

enterpriseFrame ==
    UNCHANGED <<accessVars, oracleVars, scoreVars, ingestVars, routeVars, contractVars,
                correlateVars, scoringVars,
                rangeVars>>

\* A later block, half a subscription period on.
AdvanceChain ==
    /\ chainTimestamp < SUBSCRIPTION_PERIOD + MaxChainTicks * (SUBSCRIPTION_PERIOD \div 2)
    /\ chainTimestamp' = chainTimestamp + SUBSCRIPTION_PERIOD \div 2
    /\ lastAssessmentCall' = NoAssessmentCall
    /\ UNCHANGED <<enterpriseSubscriptions, riskAssessments, nextAssessmentId>>
    /\ enterpriseFrame

subscribe(sender) ==
    /\ ~hasActiveSubscription(enterpriseSubscriptions, sender, chainTimestamp)
    /\ enterpriseSubscriptions' =
           [enterpriseSubscriptions EXCEPT ![sender] =
               [startTime |-> chainTimestamp,
                endTime |-> chainTimestamp + SUBSCRIPTION_PERIOD,
                active |-> TRUE,
                totalPaid |-> 1,
                assessmentCount |-> 0,
                lastAssessmentTime |-> 0]]
    /\ lastAssessmentCall' = NoAssessmentCall
    /\ UNCHANGED <<chainTimestamp, riskAssessments, nextAssessmentId>>
    /\ enterpriseFrame

\* renewSubscription of the enterprise contract.
renewEnterpriseSubscription(sender) ==
    LET sub == enterpriseSubscriptions[sender] IN
    /\ sub.startTime > 0
    /\ sub.totalPaid < MaxPayments
    /\ enterpriseSubscriptions' =
           [enterpriseSubscriptions EXCEPT ![sender] =
               [sub EXCEPT
                   !.startTime = IF chainTimestamp > sub.endTime THEN chainTimestamp ELSE @,
                   !.endTime = IF chainTimestamp > sub.endTime
                               THEN chainTimestamp + SUBSCRIPTION_PERIOD
                               ELSE @ + SUBSCRIPTION_PERIOD,
                   !.active = TRUE,
                   !.totalPaid = @ + 1]]
    /\ lastAssessmentCall' = NoAssessmentCall
    /\ UNCHANGED <<chainTimestamp, riskAssessments, nextAssessmentId>>
    /\ enterpriseFrame

\* cancelSubscription of the enterprise contract.
cancelEnterpriseSubscription(sender) ==
    LET sub == enterpriseSubscriptions[sender] IN
    /\ sub.startTime > 0
    /\ sub.active
    /\ enterpriseSubscriptions' = [enterpriseSubscriptions EXCEPT ![sender].active = FALSE]
    /\ lastAssessmentCall' = NoAssessmentCall
    /\ UNCHANGED <<chainTimestamp, riskAssessments, nextAssessmentId>>
    /\ enterpriseFrame

\* createRiskAssessment with a score and a confidence level within 0..100:
\* it reverts without an active subscription.
createRiskAssessment(sender) ==
    /\ nextAssessmentId <= MaxAssessments
    /\ IF hasActiveSubscription(enterpriseSubscriptions, sender, chainTimestamp)
       THEN /\ riskAssessments' =
                   (nextAssessmentId :> [id |-> nextAssessmentId, subscriber |-> sender,
                                         timestamp |-> chainTimestamp, verified |-> FALSE])
                       @@ riskAssessments
            /\ nextAssessmentId' = nextAssessmentId + 1
            /\ enterpriseSubscriptions' =
                   [enterpriseSubscriptions EXCEPT
                       ![sender].assessmentCount = @ + 1,
                       ![sender].lastAssessmentTime = chainTimestamp]
            /\ lastAssessmentCall' = [sender |-> sender, reverted |-> FALSE]
       ELSE /\ lastAssessmentCall' = [sender |-> sender, reverted |-> TRUE]
            /\ UNCHANGED <<enterpriseSubscriptions, riskAssessments, nextAssessmentId>>
    /\ UNCHANGED chainTimestamp
    /\ enterpriseFrame

verifyRiskAssessment(sender, assessmentId) ==
    /\ sender = RiskOracle
    /\ assessmentId < nextAssessmentId
    /\ assessmentId \in DOMAIN riskAssessments
    /\ ~riskAssessments[assessmentId].verified
    /\ riskAssessments' = [riskAssessments EXCEPT ![assessmentId].verified = TRUE]
    /\ lastAssessmentCall' = NoAssessmentCall
    /\ UNCHANGED <<chainTimestamp, enterpriseSubscriptions, nextAssessmentId>>
    /\ enterpriseFrame

NextEnterprise ==
    \/ AdvanceChain
    \/ \E sender \in Addresses : subscribe(sender)
    \/ \E sender \in Addresses : renewEnterpriseSubscription(sender)
    \/ \E sender \in Addresses : cancelEnterpriseSubscription(sender)
    \/ \E sender \in Addresses : createRiskAssessment(sender)
    \/ \E assessmentId \in 1..MaxAssessments : verifyRiskAssessment(RiskOracle, assessmentId)

\* C30: after a subscriber has called cancelSubscription the subscription
\* stays active until the end of the paid period: hasActiveSubscription is
\* true and createRiskAssessment does not revert.
C30_ActiveUntilPeriodEnd ==
    \A a \in Addresses :
        (/\ enterpriseSubscriptions[a].startTime > 0
         /\ ~enterpriseSubscriptions[a].active
         /\ chainTimestamp <= enterpriseSubscriptions[a].endTime)
            => /\ hasActiveSubscription(enterpriseSubscriptions, a, chainTimestamp)
               /\ ~(lastAssessmentCall.sender = a /\ lastAssessmentCall.reverted)

\* ------------------------------------------------------------------------
\* Market correlation overlay: enrichExchangeRateDataWithEarthquakes.  Rates
\* are in ten-thousandths (the code keeps 4 decimals), impacts in
\* ten-thousandths of the rate, a date is the number of its day.
\* ------------------------------------------------------------------------
\* format(new Date(time), 'yyyy-MM-dd'): the day the time falls in.
dateOf(time) == time \div DAY_MS

RateChoices == {13500, 7900}

CurrencyPairChoices ==
    { [base |-> "USD", quote |-> "SGD", name |-> "USD/SGD"],
      [base |-> "SGD", quote |-> "USD", name |-> "SGD/USD"] }

HOUR_MS == 3600000

\* Earthquakes that fetchEarthquakesForPeriod may return.
QuakeChoices ==
    { [id |-> "q1", magnitude |-> 750, place |-> "Tokyo Bay", time |-> DAY_MS + HOUR_MS],
      [id |-> "q2", magnitude |-> 650, place |-> "Santiago", time |-> DAY_MS + 5 * HOUR_MS],
      [id |-> "q3", magnitude |-> 500, place |-> "Lima", time |-> 2 * DAY_MS],
      [id |-> "q4", magnitude |-> 490, place |-> "Manila", time |-> DAY_MS + 2 * HOUR_MS],
      [id |-> "q5", magnitude |-> 700, place |-> "Anchorage", time |-> 7 * DAY_MS],
      [id |-> "q6", magnitude |-> 599, place |-> "Wellington", time |-> 23 * HOUR_MS] }

\* The series fetchExchangeRates builds: one sample per day, sorted by date
\* ascending, no earthquake attached.
SeriesChoices ==
    UNION {[1..n -> RateChoices] : n \in 0..MaxSamples}

seriesOf(rateSeq) ==
    [k \in 1..Len(rateSeq) |-> [date |-> k - 1, rate |-> rateSeq[k], earthquake |-> NoEarthquake]]

QuakeSeqChoices ==
    UNION {[1..n -> QuakeChoices] : n \in 0..MaxQuakes}

impactMagnitude(magnitude) ==
    IF magnitude >= 700 THEN 200
    ELSE IF magnitude >= 600 THEN 100
    ELSE 50

\* The direction taken from the quote currency.
impactDirection_byQuote(pair) == IF pair.quote = "USD" THEN 0 - 1 ELSE 1

impactDirection(pair) == IF pair.base = "USD" THEN 0 - 1 ELSE 1

\* parseFloat((rate * (1 + direction * impact)).toFixed(4)).
impactedRate(rate, direction, impact) == RoundDiv(rate * (10000 + direction * impact), 10000)

\* impactMagnitude * 0.4.
aftershockImpact(impact) == (impact * 4) \div 10

\* result.findIndex(r => r.date === quakeDate), counted from 1; 0 for -1.
findIndex(result, quakeDate) ==
    LET hits == {k \in 1..Len(result) : result[k].date = quakeDate} IN
    IF hits = {} THEN 0 ELSE CHOOSE k \in hits : \A j \in hits : k <= j

\* One pass of the for loop with the aftershock laid on every later sample.
overlayQuake_aftershockOnAllLater(result, quake, pair) ==
    LET matchingRateIndex == findIndex(result, dateOf(quake.time))
        impact == impactMagnitude(quake.magnitude)
        direction == impactDirection(pair) IN
    IF matchingRateIndex = 0 THEN result
    ELSE [k \in 1..Len(result) |->
             IF k = matchingRateIndex
             THEN [result[k] EXCEPT
                      !.rate = impactedRate(result[k].rate, direction, impact),
                      !.earthquake = [id |-> quake.id, magnitude |-> quake.magnitude,
                                      place |-> quake.place]]
             ELSE IF k > matchingRateIndex
             THEN [result[k] EXCEPT
                      !.rate = impactedRate(result[k].rate, direction, aftershockImpact(impact))]
             ELSE result[k]]

\* One pass of the for loop over significantQuakes.
overlayQuake(result, quake, pair) ==
    LET matchingRateIndex == findIndex(result, dateOf(quake.time))
        impact == impactMagnitude(quake.magnitude)
        direction == impactDirection(pair) IN
    IF matchingRateIndex = 0 THEN result
    ELSE [k \in 1..Len(result) |->
             IF k = matchingRateIndex
             THEN [result[k] EXCEPT
                      !.rate = impactedRate(result[k].rate, direction, impact),
                      !.earthquake = [id |-> quake.id, magnitude |-> quake.magnitude,
                                      place |-> quake.place]]
             ELSE IF k = matchingRateIndex + 1
             THEN [result[k] EXCEPT
                      !.rate = impactedRate(result[k].rate, direction, aftershockImpact(impact))]
             ELSE result[k]]

\* The overlay that lays each earthquake on the rates it was given, not on
\* the rates the earlier earthquakes have adjusted.
enrichExchangeRateDataWithEarthquakes_onGivenRates(rates, events, pair) ==
    LET significantQuakes == SelectSeq(events, LAMBDA eq : eq.magnitude >= 500)
        RECURSIVE loop(_, _)
        loop(result, n) ==
            IF n > Len(significantQuakes) THEN result
            ELSE LET laid == overlayQuake(rates, significantQuakes[n], pair) IN
                 loop([k \in 1..Len(result) |->
                          IF laid[k] # rates[k] THEN laid[k] ELSE result[k]], n + 1)
    IN loop(rates, 1)

\* enrichExchangeRateDataWithEarthquakes: the copy of the series, the filter
\* magnitude >= 5.0 and the for loop in the order of the earthquakes.
enrichExchangeRateDataWithEarthquakes(rates, events, pair) ==
    LET significantQuakes == SelectSeq(events, LAMBDA eq : eq.magnitude >= 500)
        RECURSIVE loop(_, _)
        loop(result, n) ==
            IF n > Len(significantQuakes) THEN result
            ELSE loop(overlayQuake(result, significantQuakes[n], pair), n + 1)
    IN loop(rates, 1)

NoPair == [base |-> "none", quote |-> "none", name |-> "none"]

InitCorrelate ==
    /\ exchangeRates = <<>>
    /\ quakes = <<>>
    /\ currencyPair = NoPair
    /\ enrichedData = <<>>

\* GET /api/exchange-rates is being answered: fetchExchangeRates hands its
\* series and the earthquakes of the period to
\* enrichExchangeRateDataWithEarthquakes, which has no await in its body.
Correlate ==
    \E rateSeq \in SeriesChoices, events \in QuakeSeqChoices, pair \in CurrencyPairChoices :
        /\ currencyPair = NoPair
        /\ exchangeRates' = seriesOf(rateSeq)
        /\ quakes' = events
        /\ currencyPair' = pair
        /\ enrichedData' = enrichExchangeRateDataWithEarthquakes(seriesOf(rateSeq), events, pair)
        /\ UNCHANGED <<accessVars, oracleVars, scoreVars, ingestVars, routeVars, contractVars,
                       scoringVars, rangeVars,
                       enterpriseVars>>

\* The route sends the enriched series; the call is over.
respondExchangeRates ==
    /\ currencyPair # NoPair
    /\ exchangeRates' = <<>>
    /\ quakes' = <<>>
    /\ currencyPair' = NoPair
    /\ enrichedData' = <<>>
    /\ UNCHANGED <<accessVars, oracleVars, scoreVars, ingestVars, routeVars, contractVars,
                   scoringVars, rangeVars,
                       enterpriseVars>>

NextCorrelate ==
    \/ Correlate
    \/ respondExchangeRates

\* ------------------------------------------------------------------------
\* Risk scoring of uncached events: generateFinancialImpactData on a cache
\* miss, for a pair of earthquakes of one place and depth.
\* ------------------------------------------------------------------------
\* Magnitudes (hundredths) and depths (tenths of a km) of the earthquakes
\* scored; the store accepts any number.
ScoredMagnitudes == {0 - 600, 0 - 100, 0, 250, 499, 500, 599, 600, 699, 700, 720, 1000}
ScoredDepths == {0 - 30, 0, 80, 100, 299, 300, 699, 700, 1000, 7000}
ScoredSites == {"TokyoBay", "MidAtlantic"}

scoredEarthquake(id, site, magnitude, depth) ==
    [id |-> id, place |-> IF site = "TokyoBay" THEN "Tokyo Bay" ELSE "Mid-Atlantic Ridge",
     magnitude |-> magnitude, depth |-> depth, site |-> site, time |-> 0, verified |-> FALSE]

\* What generateFinancialImpactData computes for an earthquake that is not
\* cached: its three impacts and the FinancialImpactData it returns.
assess(earthquake, noise, factor) ==
    [magnitudeImpact |-> calculateMagnitudeImpact(earthquake.magnitude),
     depthImpact |-> calculateDepthImpact(earthquake.depth),
     locationImpact |-> calculateLocationImpact(earthquake.site),
     impactData |-> generateFinancialImpactData(<<>>, earthquake, noise,
                        [m \in affectedMarkets(earthquake.site) |-> factor]).data]

InitScoring ==
    /\ assessed = <<>>
    /\ assessments = <<>>

\* A request is being answered that scores two earthquakes of one place and
\* depth, neither of them cached.
assessEarthquakes ==
    \E site \in ScoredSites, depth \in ScoredDepths, m1 \in ScoredMagnitudes,
       m2 \in ScoredMagnitudes, noise \in NoiseChoices, factor \in FactorChoices :
        /\ assessed = <<>>
        /\ assessed' = <<scoredEarthquake("e1", site, m1, depth),
                         scoredEarthquake("e2", site, m2, depth)>>
        /\ assessments' = <<assess(scoredEarthquake("e1", site, m1, depth), noise, factor),
                            assess(scoredEarthquake("e2", site, m2, depth), noise, factor)>>
        /\ UNCHANGED <<accessVars, oracleVars, scoreVars, ingestVars, routeVars, contractVars,
                       correlateVars, rangeVars,
                       enterpriseVars>>

\* The assessments are sent; the request is over.
respondAssessments ==
    /\ assessed # <<>>
    /\ assessed' = <<>>
    /\ assessments' = <<>>
    /\ UNCHANGED <<accessVars, oracleVars, scoreVars, ingestVars, routeVars, contractVars,
                   correlateVars, rangeVars,
                       enterpriseVars>>

NextScoring ==
    \/ assessEarthquakes
    \/ respondAssessments

\* ------------------------------------------------------------------------
\* Risk scoring: properties
\* ------------------------------------------------------------------------
\* C25: for every event, whatever its magnitude and depth, the assessment
\* has 0 <= marketImpactScore <= 100 and 0 <= volatilityIndex <= 100.
C25_ScoresWithinBounds ==
    \A k \in 1..Len(assessments) :
        /\ 0 <= assessments[k].impactData.marketImpactScore
        /\ assessments[k].impactData.marketImpactScore <= 100
        /\ 0 <= assessments[k].impactData.volatilityIndex
        /\ assessments[k].impactData.volatilityIndex <= 100

RiskRank(riskLevel) ==
    CASE riskLevel = "LOW" -> 1
      [] riskLevel = "MEDIUM" -> 2
      [] riskLevel = "HIGH" -> 3
      [] riskLevel = "CRITICAL" -> 4

\* C26: of two earthquakes of the same depth and location, the one with the
\* larger magnitude has a magnitudeImpact and a riskLevel (LOW < MEDIUM <
\* HIGH < CRITICAL) that are not smaller.
C26_MonotoneInMagnitude ==
    \A i, j \in 1..Len(assessed) :
        (/\ assessed[i].depth = assessed[j].depth
         /\ assessed[i].site = assessed[j].site
         /\ assessed[i].magnitude <= assessed[j].magnitude)
            => /\ assessments[i].magnitudeImpact <= assessments[j].magnitudeImpact
               /\ RiskRank(assessments[i].impactData.riskLevel)
                      <= RiskRank(assessments[j].impactData.riskLevel)

\* Magnitudes 5.99 and 6.0 (either side of a piece boundary) have been scored
\* and the risk level has risen between two magnitudes.
C26_Witness ==
    \/ /\ Len(assessed) = 2
       /\ assessed[1].magnitude = 599 /\ assessed[2].magnitude = 600
       /\ assessments[1].magnitudeImpact < assessments[2].magnitudeImpact
    \/ /\ Len(assessed) = 2
       /\ assessed[1].magnitude = 699 /\ assessed[2].magnitude = 700
       /\ RiskRank(assessments[1].impactData.riskLevel)
              < RiskRank(assessments[2].impactData.riskLevel)

\* The Tokyo Bay event of the scenario: magnitude 7.2, depth 8 km.
IsTokyoBayScenario(earthquake) ==
    /\ earthquake.place = "Tokyo Bay"
    /\ earthquake.site = "TokyoBay"
    /\ earthquake.magnitude = 720
    /\ earthquake.depth = 80

\* C27: the Tokyo Bay event scores magnitudeImpact about 85.5, depthImpact 84,
\* locationImpact 90, marketImpactScore 87 and riskLevel CRITICAL.
C27_TokyoBayScenario ==
    \A k \in 1..Len(assessed) :
        IsTokyoBayScenario(assessed[k]) =>
            /\ Abs(assessments[k].magnitudeImpact - 8550) <= 50
            /\ assessments[k].depthImpact = 8400
            /\ assessments[k].locationImpact = 9000
            /\ assessments[k].impactData.marketImpactScore = 87
            /\ assessments[k].impactData.riskLevel = "CRITICAL"

\* C27, amended: the Tokyo Bay event scores magnitudeImpact 73 (70 +
\* 15 * 0.2), depthImpact 84, locationImpact 90, marketImpactScore
\* round(36.5 + 16.8 + 27) = 80 and riskLevel HIGH.
C27_TokyoBayScores80High ==
    \A k \in 1..Len(assessed) :
        IsTokyoBayScenario(assessed[k]) =>
            /\ assessments[k].magnitudeImpact = 7300
            /\ assessments[k].depthImpact = 8400
            /\ assessments[k].locationImpact = 9000
            /\ assessments[k].impactData.marketImpactScore = 80
            /\ assessments[k].impactData.riskLevel = "HIGH"

C27_Witness ==
    \E k \in 1..Len(assessed) :
        /\ IsTokyoBayScenario(assessed[k])
        /\ assessments[k].impactData.earthquakeId = assessed[k].id

\* ------------------------------------------------------------------------
\* Market correlation overlay: properties
\* ------------------------------------------------------------------------
\* The samples of the given series whose date is the day of the earthquake.
MatchOf(quake) == {k \in 1..Len(exchangeRates) : exchangeRates[k].date = dateOf(quake.time)}

\* The earthquakes of the call that take part: magnitude >= 5.0 and a sample
\* of their day, in the order they were given.
Participating == SelectSeq(quakes, LAMBDA q : q.magnitude >= 500 /\ MatchOf(q) # {})

\* Impact by severity: 2%, 1% or 0.5%, in ten-thousandths.
SeverityImpact(magnitude) ==
    IF magnitude >= 700 THEN 200 ELSE IF magnitude >= 600 THEN 100 ELSE 50

\* -1 when the base currency is USD, else +1.
PairDirection == IF currencyPair.base = "USD" THEN 0 - 1 ELSE 1

\* rate * (1 + direction * impact), rounded to 4 decimals.
Adjusted(rate, impact) == RoundDiv(rate * (10000 + PairDirection * impact), 10000)

\* C22: the returned series has the length, the dates and the order of the
\* given one; with a single qualifying event only the sample of the event's
\* date and the sample after it differ from the given series, the latter by
\* 40% of the impact in the same direction, its other fields as given.
C22_OverlayFrame ==
    currencyPair # NoPair =>
        /\ Len(enrichedData) = Len(exchangeRates)
        /\ \A k \in 1..Len(exchangeRates) : enrichedData[k].date = exchangeRates[k].date
        /\ Len(SelectSeq(quakes, LAMBDA q : q.magnitude >= 500)) = 1 =>
               LET quake == SelectSeq(quakes, LAMBDA q : q.magnitude >= 500)[1] IN
               \A k \in 1..Len(exchangeRates) :
                   IF k \in MatchOf(quake) THEN TRUE
                   ELSE IF k - 1 \in MatchOf(quake)
                   THEN enrichedData[k] =
                            [exchangeRates[k] EXCEPT
                                !.rate = Adjusted(exchangeRates[k].rate,
                                                  (SeverityImpact(quake.magnitude) * 40) \div 100)]
                   ELSE enrichedData[k] = exchangeRates[k]

\* A single qualifying event whose day has a sample before it and a sample
\* after it: the sample after it has moved, the sample before it has not.
C22_Witness ==
    /\ currencyPair # NoPair
    /\ Len(quakes) = 2
    /\ Len(Participating) = 1
    /\ \E k \in MatchOf(Participating[1]) :
          /\ k > 1 /\ k < Len(exchangeRates)
          /\ enrichedData[k + 1].rate # exchangeRates[k + 1].rate
          /\ enrichedData[k - 1] = exchangeRates[k - 1]

RECURSIVE ComposedRate(_, _)
ComposedRate(rate, impacts) ==
    IF impacts = <<>> THEN rate
    ELSE ComposedRate(Adjusted(rate, Head(impacts)), Tail(impacts))

\* C24: when several qualifying events fall on the same date, the matched
\* sample's rate is the sequential composition of their adjustments in event
\* order (and the next sample's rate that of their aftershocks).
C24_SequentialComposition ==
    (/\ currencyPair # NoPair
     /\ Len(Participating) >= 2
     /\ \A i, j \in 1..Len(Participating) :
            dateOf(Participating[i].time) = dateOf(Participating[j].time))
        => \A k \in MatchOf(Participating[1]) :
               /\ enrichedData[k].rate =
                      ComposedRate(exchangeRates[k].rate,
                                   [i \in 1..Len(Participating) |->
                                       SeverityImpact(Participating[i].magnitude)])
               /\ k < Len(exchangeRates) =>
                      enrichedData[k + 1].rate =
                          ComposedRate(exchangeRates[k + 1].rate,
                                       [i \in 1..Len(Participating) |->
                                           (SeverityImpact(Participating[i].magnitude) * 40) \div 100])

\* Two different qualifying events of one date, of different severity.
C24_Witness ==
    /\ currencyPair # NoPair
    /\ Len(Participating) = 2
    /\ Participating[1].id # Participating[2].id
    /\ Participating[1].magnitude < Participating[2].magnitude
    /\ dateOf(Participating[1].time) = dateOf(Participating[2].time)
    /\ \E k \in MatchOf(Participating[1]) :
          /\ k < Len(exchangeRates)
          /\ enrichedData[k].rate # exchangeRates[k].rate


\* ------------------------------------------------------------------------
\* EarthquakeOracleService: the active count and the API keys
\* ------------------------------------------------------------------------
\* isSubscriptionActive(_id); a subscription that was never created reads as
\* the zero record, whose active is false.
isSubscriptionActive(id) ==
    /\ id \in DOMAIN subscriptions
    /\ subscriptions[id].active
    /\ subscriptions[id].endTime > blockTimestamp

\* The contract's validateApiKey(_apiKey): false for a key that
\* apiKeyToSubscriber does not hold, else whether the subscriber it holds has
\* an active, unexpired subscription with that key.
oracleValidateApiKey(apiKey) ==
    /\ apiKey \in DOMAIN apiKeyToSubscriber
    /\ LET subs == subscriberToSubscriptionIds[apiKeyToSubscriber[apiKey]] IN
       \E i \in 1..Len(subs) :
           /\ subscriptions[subs[i]].active
           /\ subscriptions[subs[i]].endTime > blockTimestamp
           /\ subscriptions[subs[i]].apiKey = apiKey

\* C37 (as claimed): totalActiveSubscriptions is the number of subscriptions
\* whose active flag is true.
C37_ActiveCountMatchesFlags ==
    totalActiveSubscriptions =
        Cardinality({id \in DOMAIN subscriptions : subscriptions[id].active})

\* C38 (as claimed): whenever isSubscriptionActive(id) is true, validateApiKey
\* accepts the subscription's API key.
C38_ActiveKeyAccepted ==
    \A id \in SubscriptionIds :
        isSubscriptionActive(id) => oracleValidateApiKey(subscriptions[id].apiKey)

\* ------------------------------------------------------------------------
\* EarthquakeData: transactions (a reverted transaction changes nothing and
\* is not a step)
\* ------------------------------------------------------------------------
\* The deployer, and the accounts that send transactions.
DataOwner == "owner"
ZeroAddress == "0x0"
DataSenders == {"a1", "a2", "a3", DataOwner}

\* _id arguments: the empty string and a USGS id.
RecordIdChoices == {"", "us1"}

\* _newThreshold arguments.
ThresholdChoices == {2, 3, 4}

\* bytes(earthquakes[_id].id).length > 0: the mapping holds a record whose id
\* field is not the empty string.
earthquakeExists(id) == id \in DOMAIN chainEarthquakes /\ chainEarthquakes[id].id # ""

InitData ==
    /\ chainEarthquakes = <<>>
    /\ hasVerified = {}
    /\ earthquakeIds = <<>>
    /\ governanceContract = ZeroAddress
    /\ verificationThreshold = 5
    /\ earthquakeCount = 0

dataFrame ==
    UNCHANGED <<accessVars, oracleVars, scoreVars, ingestVars, correlateVars, scoringVars,
                rangeVars, enterpriseVars, routeVars, alertVars, governanceVars>>

\* recordEarthquake(_id, ...): the coordinates, magnitude, depth, time and
\* place it stores are read by no other function and are left out.
recordEarthquake(sender, id) ==
    /\ ~earthquakeExists(id)
    /\ Len(earthquakeIds) < MaxRecords
    /\ chainEarthquakes' =
           (id :> [id |-> id, verified |-> FALSE, verifications |-> 0]) @@ chainEarthquakes
    /\ earthquakeIds' = Append(earthquakeIds, id)
    /\ earthquakeCount' = earthquakeCount + 1
    /\ UNCHANGED <<hasVerified, governanceContract, verificationThreshold>>
    /\ dataFrame

verifyEarthquake(sender, id) ==
    /\ earthquakeExists(id)
    /\ <<id, sender>> \notin hasVerified
    /\ hasVerified' = hasVerified \cup {<<id, sender>>}
    /\ LET count == chainEarthquakes[id].verifications + 1 IN
       chainEarthquakes' =
           [chainEarthquakes EXCEPT
               ![id].verifications = count,
               ![id].verified = IF count >= verificationThreshold
                                   /\ ~chainEarthquakes[id].verified
                                THEN TRUE ELSE @]
    /\ UNCHANGED <<earthquakeIds, governanceContract, verificationThreshold, earthquakeCount>>
    /\ dataFrame

\* setVerificationThreshold without its require.
setVerificationThreshold_noMinimum(sender, newThreshold) ==
    /\ sender = governanceContract \/ sender = DataOwner
    /\ verificationThreshold' = newThreshold
    /\ UNCHANGED <<chainEarthquakes, hasVerified, earthquakeIds, governanceContract,
                   earthquakeCount>>
    /\ dataFrame

\* setVerificationThreshold(_newThreshold), modifier onlyGovernance.
setVerificationThreshold(sender, newThreshold) ==
    /\ sender = governanceContract \/ sender = DataOwner
    /\ newThreshold >= MIN_VERIFICATION_THRESHOLD
    /\ verificationThreshold' = newThreshold
    /\ UNCHANGED <<chainEarthquakes, hasVerified, earthquakeIds, governanceContract,
                   earthquakeCount>>
    /\ dataFrame

\* setGovernanceContract(_governanceContract), modifier onlyOwner.
setGovernanceContract(sender, newContract) ==
    /\ sender = DataOwner
    /\ newContract # ZeroAddress
    /\ governanceContract' = newContract
    /\ UNCHANGED <<chainEarthquakes, hasVerified, earthquakeIds, verificationThreshold,
                   earthquakeCount>>
    /\ dataFrame

NextData ==
    \/ \E sender \in DataSenders, id \in RecordIdChoices : recordEarthquake(sender, id)
    \/ \E sender \in DataSenders, id \in RecordIdChoices : verifyEarthquake(sender, id)
    \/ \E sender \in DataSenders, newThreshold \in ThresholdChoices :
          setVerificationThreshold(sender, newThreshold)
    \/ \E sender \in DataSenders, newContract \in {"a1", ZeroAddress} :
          setGovernanceContract(sender, newContract)

\* The addresses recorded as having verified an earthquake.
VerifiersOf(id) == {a \in DataSenders : <<id, a>> \in hasVerified}

\* C33: an earthquake that is marked verified has at least
\* MIN_VERIFICATION_THRESHOLD verifications, each from a distinct address,
\* and a verified earthquake stays verified.
C33_VerifiedNeedsThreeDistinct ==
    /\ [](\A id \in DOMAIN chainEarthquakes :
              /\ chainEarthquakes[id].verifications = Cardinality(VerifiersOf(id))
              /\ chainEarthquakes[id].verified
                     => chainEarthquakes[id].verifications >= MIN_VERIFICATION_THRESHOLD)
    /\ [][\A id \in DOMAIN chainEarthquakes :
             chainEarthquakes[id].verified
                 => id \in DOMAIN chainEarthquakes' /\ chainEarthquakes'[id].verified]_vars

\* An earthquake was verified by its third verification under threshold 3,
\* and is still verified after the threshold was raised above its count.
C33_Witness ==
    \E id \in DOMAIN chainEarthquakes :
        /\ chainEarthquakes[id].verified
        /\ chainEarthquakes[id].verifications = 3
        /\ verificationThreshold = 4
        /\ governanceContract # ZeroAddress

\* C34 (as claimed): no id appears twice in earthquakeIds and earthquakeCount
\* is the number of distinct recorded ids.
C34_RecordedOnce ==
    /\ \A i, j \in 1..Len(earthquakeIds) : i # j => earthquakeIds[i] # earthquakeIds[j]
    /\ earthquakeCount = Cardinality({earthquakeIds[i] : i \in 1..Len(earthquakeIds)})

\* ------------------------------------------------------------------------
\* EarthquakeAlertSubscription: transactions (a reverted transaction changes
\* nothing and is not a step; msg.value covers the price)
\* ------------------------------------------------------------------------
SECONDS_PER_MONTH == 30 * SECONDS_PER_DAY

\* _months arguments.
MonthsChoices == {1, 2, 13}

InitAlertSubscription ==
    /\ alertTimestamp = 0
    /\ alertSubscriptions = <<>>
    /\ alertNextSubscriptionId = 1
    /\ alertTotalActiveSubscriptions = 0
    /\ alertRenewals = 0

alertFrame ==
    UNCHANGED <<accessVars, oracleVars, scoreVars, ingestVars, correlateVars, scoringVars,
                rangeVars, enterpriseVars, routeVars, dataVars, governanceVars>>

\* A later block, a month on.
AdvanceMonth ==
    /\ alertTimestamp < MaxAlertTicks * SECONDS_PER_MONTH
    /\ alertTimestamp' = alertTimestamp + SECONDS_PER_MONTH
    /\ UNCHANGED <<alertSubscriptions, alertNextSubscriptionId, alertTotalActiveSubscriptions,
                   alertRenewals>>
    /\ alertFrame

\* createSubscription(..., _months, ...) with a valid region; the alert
\* parameters, email and organization name are read by no transaction here
\* and are left out.
createAlertSubscription(sender, months) ==
    /\ months > 0 /\ months <= MAX_SUBSCRIPTION_MONTHS
    /\ alertNextSubscriptionId <= MaxAlertSubscriptions
    /\ alertNextSubscriptionId' = alertNextSubscriptionId + 1
    /\ alertSubscriptions' =
           (alertNextSubscriptionId :>
               [id |-> alertNextSubscriptionId,
                subscriber |-> sender,
                startTime |-> alertTimestamp,
                endTime |-> alertTimestamp + months * SECONDS_PER_MONTH,
                active |-> TRUE]) @@ alertSubscriptions
    /\ alertTotalActiveSubscriptions' = alertTotalActiveSubscriptions + 1
    /\ UNCHANGED <<alertTimestamp, alertRenewals>>
    /\ alertFrame

\* renewSubscription(_id, _months): the expired branch sets active before
\* the test of !subscription.active is made.
renewAlertSubscription(sender, id, months) ==
    /\ id \in DOMAIN alertSubscriptions
    /\ alertSubscriptions[id].subscriber = sender
    /\ months > 0 /\ months <= MAX_SUBSCRIPTION_MONTHS
    /\ alertRenewals < MaxAlertRenewals
    /\ alertRenewals' = alertRenewals + 1
    /\ LET subscription == alertSubscriptions[id]
           additionalDuration == months * SECONDS_PER_MONTH
           timed == IF subscription.endTime < alertTimestamp
                    THEN [subscription EXCEPT !.endTime = alertTimestamp + additionalDuration,
                                              !.active = TRUE]
                    ELSE [subscription EXCEPT !.endTime = @ + additionalDuration] IN
       /\ alertSubscriptions' = [alertSubscriptions EXCEPT ![id] = [timed EXCEPT !.active = TRUE]]
       /\ alertTotalActiveSubscriptions' =
              IF ~timed.active THEN alertTotalActiveSubscriptions + 1
              ELSE alertTotalActiveSubscriptions
    /\ UNCHANGED <<alertTimestamp, alertNextSubscriptionId>>
    /\ alertFrame

\* cancelSubscription(_id); totalActiveSubscriptions-- reverts at 0.
cancelAlertSubscription(sender, id) ==
    /\ id \in DOMAIN alertSubscriptions
    /\ alertSubscriptions[id].subscriber = sender
    /\ alertSubscriptions[id].active
    /\ alertTotalActiveSubscriptions > 0
    /\ alertSubscriptions' = [alertSubscriptions EXCEPT ![id].active = FALSE]
    /\ alertTotalActiveSubscriptions' = alertTotalActiveSubscriptions - 1
    /\ UNCHANGED <<alertTimestamp, alertNextSubscriptionId, alertRenewals>>
    /\ alertFrame

NextAlertSubscription ==
    \/ AdvanceMonth
    \/ \E sender \in Addresses, months \in MonthsChoices : createAlertSubscription(sender, months)
    \/ \E sender \in Addresses, id \in 1..MaxAlertSubscriptions, months \in MonthsChoices :
          renewAlertSubscription(sender, id, months)
    \/ \E sender \in Addresses, id \in 1..MaxAlertSubscriptions :
          cancelAlertSubscription(sender, id)

\* C39 (as claimed): totalActiveSubscriptions is the number of subscriptions
\* whose active flag is true.
C39_AlertActiveCountMatchesFlags ==
    alertTotalActiveSubscriptions =
        Cardinality({id \in DOMAIN alertSubscriptions : alertSubscriptions[id].active})

\* ------------------------------------------------------------------------
\* EarthquakeDataGovernance: transactions (a reverted transaction changes
\* nothing and is not a step).  The contract is deployed with a voting
\* period of one day; setVotingPeriod, setDataContract and transferOwnership
\* are not sent.
\* ------------------------------------------------------------------------
GovernanceOwner == "owner"
GovernanceSenders == {GovernanceOwner, "a1", "a2"}
votingPeriod == SECONDS_PER_DAY

\* _minVotesRequired arguments.
MinVotesChoices == {0, 2}

\* validators[a].active; the zero record of an address never added is
\* inactive.
isActiveValidator(a) == a \in DOMAIN validators /\ validators[a].active

\* The constructor: minVotesRequired = 3 and _addValidator(msg.sender).
InitGovernance ==
    /\ governanceTimestamp = 0
    /\ proposals = <<>>
    /\ validators = (GovernanceOwner :> [account |-> GovernanceOwner, active |-> TRUE])
    /\ validatorCount = 1
    /\ nextProposalId = 1
    /\ minVotesRequired = 3
    /\ removedValidators = {}

governanceFrame ==
    UNCHANGED <<accessVars, oracleVars, scoreVars, ingestVars, correlateVars, scoringVars,
                rangeVars, enterpriseVars, routeVars, dataVars, alertVars>>

\* A later block, a day on.
AdvanceGovernanceBlock ==
    /\ governanceTimestamp < MaxGovernanceTicks * SECONDS_PER_DAY
    /\ governanceTimestamp' = governanceTimestamp + SECONDS_PER_DAY
    /\ UNCHANGED <<proposals, validators, validatorCount, nextProposalId, minVotesRequired,
                   removedValidators>>
    /\ governanceFrame

\* addValidator(_validator) -> _addValidator: a new record for an address
\* never added, else the stored record made active again.
addValidator(sender, validator) ==
    /\ sender = GovernanceOwner
    /\ ~isActiveValidator(validator)
    /\ validators' = IF validator \in DOMAIN validators
                     THEN [validators EXCEPT ![validator].active = TRUE]
                     ELSE (validator :> [account |-> validator, active |-> TRUE]) @@ validators
    /\ validatorCount' = validatorCount + 1
    /\ UNCHANGED <<governanceTimestamp, proposals, nextProposalId, minVotesRequired,
                   removedValidators>>
    /\ governanceFrame

removeValidator(sender, validator) ==
    /\ sender = GovernanceOwner
    /\ isActiveValidator(validator)
    /\ validators' = [validators EXCEPT ![validator].active = FALSE]
    /\ validatorCount' = validatorCount - 1
    /\ removedValidators' = removedValidators \cup {validator}
    /\ UNCHANGED <<governanceTimestamp, proposals, nextProposalId, minVotesRequired>>
    /\ governanceFrame

\* createProposal(_earthquakeId, _description): the proposer's approval is
\* counted and recorded; the two strings are read by no transaction and are
\* left out.
createProposal(sender) ==
    /\ isActiveValidator(sender)
    /\ nextProposalId <= MaxProposals
    /\ nextProposalId' = nextProposalId + 1
    /\ proposals' = (nextProposalId :>
                        [id |-> nextProposalId,
                         proposer |-> sender,
                         approvalCount |-> 1,
                         rejectionCount |-> 0,
                         startTime |-> governanceTimestamp,
                         endTime |-> governanceTimestamp + votingPeriod,
                         executed |-> FALSE,
                         approved |-> FALSE,
                         hasVoted |-> {sender}]) @@ proposals
    /\ UNCHANGED <<governanceTimestamp, validators, validatorCount, minVotesRequired,
                   removedValidators>>
    /\ governanceFrame

\* _executeProposal: executed, and approved iff approvals outnumber
\* rejections.
executedProposal(proposal) ==
    [proposal EXCEPT !.executed = TRUE,
                     !.approved = proposal.approvalCount > proposal.rejectionCount]

\* The proposal after the vote is counted, executed when either every
\* validator has voted or the approvals have reached minVotesRequired.
votedProposal(proposal, sender, approve) ==
    LET counted == [proposal EXCEPT
                       !.hasVoted = @ \cup {sender},
                       !.approvalCount = IF approve THEN @ + 1 ELSE @,
                       !.rejectionCount = IF approve THEN @ ELSE @ + 1] IN
    IF \/ counted.approvalCount + counted.rejectionCount >= validatorCount
       \/ counted.approvalCount >= minVotesRequired
    THEN executedProposal(counted)
    ELSE counted

\* vote without the require on hasVoted.
vote_noAlreadyVotedCheck(sender, proposalId, approve) ==
    /\ isActiveValidator(sender)
    /\ proposalId < nextProposalId /\ proposalId \in DOMAIN proposals
    /\ ~proposals[proposalId].executed
    /\ governanceTimestamp < proposals[proposalId].endTime
    /\ proposals' = [proposals EXCEPT ![proposalId] = votedProposal(@, sender, approve)]
    /\ UNCHANGED <<governanceTimestamp, validators, validatorCount, nextProposalId,
                   minVotesRequired, removedValidators>>
    /\ governanceFrame

\* vote(_proposalId, _approve), modifiers onlyValidator and validProposal.
vote(sender, proposalId, approve) ==
    /\ isActiveValidator(sender)
    /\ proposalId < nextProposalId /\ proposalId \in DOMAIN proposals
    /\ ~proposals[proposalId].executed
    /\ governanceTimestamp < proposals[proposalId].endTime
    /\ sender \notin proposals[proposalId].hasVoted
    /\ proposals' = [proposals EXCEPT ![proposalId] = votedProposal(@, sender, approve)]
    /\ UNCHANGED <<governanceTimestamp, validators, validatorCount, nextProposalId,
                   minVotesRequired, removedValidators>>
    /\ governanceFrame

\* executeProposal(_proposalId), open to every sender once the voting
\* period has ended.
executeProposal(sender, proposalId) ==
    /\ proposalId < nextProposalId /\ proposalId \in DOMAIN proposals
    /\ ~proposals[proposalId].executed
    /\ governanceTimestamp >= proposals[proposalId].endTime
    /\ proposals' = [proposals EXCEPT ![proposalId] = executedProposal(@)]
    /\ UNCHANGED <<governanceTimestamp, validators, validatorCount, nextProposalId,
                   minVotesRequired, removedValidators>>
    /\ governanceFrame

setMinVotesRequired(sender, newMinVotes) ==
    /\ sender = GovernanceOwner
    /\ newMinVotes > 0
    /\ minVotesRequired' = newMinVotes
    /\ UNCHANGED <<governanceTimestamp, proposals, validators, validatorCount, nextProposalId,
                   removedValidators>>
    /\ governanceFrame

NextGovernance ==
    \/ AdvanceGovernanceBlock
    \/ \E sender, validator \in GovernanceSenders : addValidator(sender, validator)
    \/ \E sender, validator \in GovernanceSenders : removeValidator(sender, validator)
    \/ \E sender \in GovernanceSenders : createProposal(sender)
    \/ \E sender \in GovernanceSenders, proposalId \in 1..MaxProposals, approve \in BOOLEAN :
          vote(sender, proposalId, approve)
    \/ \E sender \in GovernanceSenders, proposalId \in 1..MaxProposals :
          executeProposal(sender, proposalId)
    \/ \E sender \in GovernanceSenders, newMinVotes \in MinVotesChoices :
          setMinVotesRequired(sender, newMinVotes)

\* C31: for every proposal, approvalCount + rejectionCount is the number of
\* addresses recorded as having voted on it, the proposer included; removing
\* a validator and adding it again changes neither.
C31_OneVotePerValidator ==
    \A id \in DOMAIN proposals :
        /\ proposals[id].approvalCount + proposals[id].rejectionCount
               = Cardinality(proposals[id].hasVoted)
        /\ proposals[id].proposer \in proposals[id].hasVoted

\* A validator that voted on an open proposal has been removed and added
\* again, and is an active validator while the proposal is still open for
\* votes with two votes counted.
C31_Witness ==
    \E id \in DOMAIN proposals, a \in removedValidators :
        /\ a \in proposals[id].hasVoted
        /\ a # proposals[id].proposer
        /\ isActiveValidator(a)
        /\ ~proposals[id].executed
        /\ governanceTimestamp < proposals[id].endTime
        /\ proposals[id].approvalCount + proposals[id].rejectionCount = 2

\* C32 (as claimed): a proposal is executed with approved = true only if it
\* has at least minVotesRequired approvals at that moment.
C32_ApprovedNeedsMinVotes ==
    [][\A id \in DOMAIN proposals' :
          ( /\ id \in DOMAIN proposals => ~proposals[id].executed
            /\ proposals'[id].executed
            /\ proposals'[id].approved )
          => proposals'[id].approvalCount >= minVotesRequired]_vars

\* ------------------------------------------------------------------------
\* Metered routes: verifyApiKey, then the handler.  next() calls the handler
\* in the same synchronous stretch, up to the handler's first await.
\* ------------------------------------------------------------------------
NoRouteCall == [pc |-> "idle", route |-> "none", apiKey |-> NoHeader, before |-> 0,
                remainingRequests |-> 0, earthquakeId |-> "none",
                earthquake |-> NoEarthquake, earthquakes |-> {}, startTime |-> 0, endTime |-> 0]

\* req.body of POST /bulk-financial-impact: one that
\* bulkFinancialImpactRequestSchema refuses (no endTime) and one it accepts.
BulkBodyChoices ==
    { [valid |-> FALSE, startTime |-> 0 - DAY_MS, endTime |-> 0],
      [valid |-> TRUE, startTime |-> 0 - DAY_MS, endTime |-> DAY_MS] }

\* subscription.remainingRequests of a key, 0 for a key that is not stored.
budgetOf(keys, apiKey) == IF apiKey \in DOMAIN keys THEN keys[apiKey].remainingRequests ELSE 0

\* The HTTP status verifyApiKey answers with when it does not call next().
refusalStatus(status) == IF status = "RecordingFailed" THEN 400 ELSE 401

\* A response as the log keeps it: passed says that verifyApiKey called
\* next(); before, remainingRequests and left are the key's budget when the
\* request arrived, the value put on the request, and the budget when the
\* response is sent.
response(route, apiKey, status, passed, before, remainingRequests, keys) ==
    [route |-> route, apiKey |-> apiKey, status |-> status, passed |-> passed,
     before |-> before, remainingRequests |-> remainingRequests,
     left |-> budgetOf(keys, apiKey)]

InitRoutes ==
    /\ routeCalls = [c \in Callers |-> NoRouteCall]
    /\ responses = {}

routeFrame ==
    UNCHANGED <<now, pending, consumeLog, issuedLimit, directCalls, lastValidation,
                oracleVars, earthquakes, scoreCalls, returned, repeated, notFound, ingestVars,
                correlateVars, scoringVars, rangeVars, enterpriseVars, contractVars>>

\* GET /financial-impact/:earthquakeId up to its first await: verifyApiKey,
\* then getFinancialImpactForEarthquake's cache lookup and, on a miss, the
\* read that storage.getEarthquake does when it is called.
getFinancialImpactRoute(c, apiKey, earthquakeId) ==
    /\ routeCalls[c].pc = "idle"
    /\ LET out == verifyApiKey(apiKeys, apiKey, now)
           before == budgetOf(apiKeys, apiKey) IN
       /\ apiKeys' = out.keys
       /\ IF out.status # "ok"
          THEN /\ responses' = responses \cup
                      {response("financial-impact", apiKey, refusalStatus(out.status), FALSE,
                                before, 0, out.keys)}
               /\ UNCHANGED routeCalls
          ELSE IF earthquakeId \in DOMAIN financialImpactCache
          THEN /\ responses' = responses \cup
                      {response("financial-impact", apiKey, 200, TRUE,
                                before, out.remaining, out.keys)}
               /\ UNCHANGED routeCalls
          ELSE /\ routeCalls' = [routeCalls EXCEPT ![c] =
                      [NoRouteCall EXCEPT
                          !.pc = "atGetEarthquake", !.route = "financial-impact",
                          !.apiKey = apiKey, !.before = before,
                          !.remainingRequests = out.remaining,
                          !.earthquakeId = earthquakeId,
                          !.earthquake = IF earthquakeId \in DOMAIN earthquakes
                                         THEN earthquakes[earthquakeId] ELSE NoEarthquake]]
               /\ UNCHANGED responses
    /\ UNCHANGED financialImpactCache
    /\ routeFrame

\* The handler after its await that gives the request back to the key's
\* budget when it answers 404.
afterGetFinancialImpact_refundNotFound(c) ==
    /\ routeCalls[c].pc = "atGetEarthquake"
    /\ LET call == routeCalls[c] IN
       IF call.earthquake = NoEarthquake
       THEN /\ apiKeys' = [apiKeys EXCEPT ![call.apiKey].remainingRequests = @ + 1]
            /\ responses' = responses \cup
                   {response(call.route, call.apiKey, 404, TRUE, call.before,
                             call.remainingRequests, apiKeys')}
            /\ UNCHANGED financialImpactCache
       ELSE \E noise \in NoiseChoices, factor \in FactorChoices :
               LET out == generateFinancialImpactData(
                              financialImpactCache, call.earthquake, noise,
                              [m \in affectedMarkets(call.earthquake.site) |-> factor]) IN
               /\ financialImpactCache' = out.cache
               /\ responses' = responses \cup
                      {response(call.route, call.apiKey, 200, TRUE, call.before,
                                call.remainingRequests, apiKeys)}
               /\ UNCHANGED apiKeys
    /\ routeCalls' = [routeCalls EXCEPT ![c] = NoRouteCall]
    /\ routeFrame

\* The handler after await getFinancialImpactForEarthquake(...): 404
\* EARTHQUAKE_NOT_FOUND for null, otherwise the data that
\* generateFinancialImpactData returned.
afterGetFinancialImpact(c) ==
    /\ routeCalls[c].pc = "atGetEarthquake"
    /\ LET call == routeCalls[c] IN
       IF call.earthquake = NoEarthquake
       THEN /\ responses' = responses \cup
                   {response(call.route, call.apiKey, 404, TRUE, call.before,
                             call.remainingRequests, apiKeys)}
            /\ UNCHANGED financialImpactCache
       ELSE \E noise \in NoiseChoices, factor \in FactorChoices :
               LET out == generateFinancialImpactData(
                              financialImpactCache, call.earthquake, noise,
                              [m \in affectedMarkets(call.earthquake.site) |-> factor]) IN
               /\ financialImpactCache' = out.cache
               /\ responses' = responses \cup
                      {response(call.route, call.apiKey, 200, TRUE, call.before,
                                call.remainingRequests, apiKeys)}
    /\ routeCalls' = [routeCalls EXCEPT ![c] = NoRouteCall]
    /\ UNCHANGED apiKeys
    /\ routeFrame

\* POST /bulk-financial-impact up to its first await: verifyApiKey, then
\* safeParse of the body (400 when it fails), then
\* getEarthquakesWithFinancialImpact, whose storage.getEarthquakes reads the
\* store when it is called.
postBulkFinancialImpactRoute(c, apiKey, body) ==
    /\ routeCalls[c].pc = "idle"
    /\ LET out == verifyApiKey(apiKeys, apiKey, now)
           before == budgetOf(apiKeys, apiKey) IN
       /\ apiKeys' = out.keys
       /\ IF out.status # "ok"
          THEN /\ responses' = responses \cup
                      {response("bulk-financial-impact", apiKey, refusalStatus(out.status),
                                FALSE, before, 0, out.keys)}
               /\ UNCHANGED routeCalls
          ELSE IF ~body.valid
          THEN /\ responses' = responses \cup
                      {response("bulk-financial-impact", apiKey, 400, TRUE,
                                before, out.remaining, out.keys)}
               /\ UNCHANGED routeCalls
          ELSE /\ routeCalls' = [routeCalls EXCEPT ![c] =
                      [NoRouteCall EXCEPT
                          !.pc = "atGetEarthquakes", !.route = "bulk-financial-impact",
                          !.apiKey = apiKey, !.before = before,
                          !.remainingRequests = out.remaining,
                          !.earthquakes = getEarthquakes(earthquakes, now, "custom"),
                          !.startTime = body.startTime, !.endTime = body.endTime]]
               /\ UNCHANGED responses
    /\ UNCHANGED financialImpactCache
    /\ routeFrame

\* The handler after await getEarthquakesWithFinancialImpact(...): the range
\* filter and generateFinancialImpactData for each earthquake that is left
\* have run, and the data is sent.
afterGetBulkFinancialImpact(c) ==
    /\ routeCalls[c].pc = "atGetEarthquakes"
    /\ LET call == routeCalls[c]
           filtered == filteredEarthquakes(call) IN
       /\ \E noise \in NoiseChoices, factor \in FactorChoices :
             financialImpactCache' =
                 [id \in DOMAIN financialImpactCache \cup {quake.id : quake \in filtered} |->
                     IF id \in DOMAIN financialImpactCache THEN financialImpactCache[id]
                     ELSE LET quake == CHOOSE q \in filtered : q.id = id IN
                          generateFinancialImpactData(
                              financialImpactCache, quake, noise,
                              [m \in affectedMarkets(quake.site) |-> factor]).data]
       /\ responses' = responses \cup
              {response(call.route, call.apiKey, 200, TRUE, call.before,
                        call.remainingRequests, apiKeys)}
    /\ routeCalls' = [routeCalls EXCEPT ![c] = NoRouteCall]
    /\ UNCHANGED apiKeys
    /\ routeFrame

NextRoutes ==
    \/ Tick
    \/ CreateApiKey
    \/ \E c \in Callers, apiKey \in HeaderValues, earthquakeId \in EqIds :
          getFinancialImpactRoute(c, apiKey, earthquakeId)
    \/ \E c \in Callers : afterGetFinancialImpact(c)
    \/ \E c \in Callers, apiKey \in HeaderValues, body \in BulkBodyChoices :
          postBulkFinancialImpactRoute(c, apiKey, body)
    \/ \E c \in Callers : afterGetBulkFinancialImpact(c)

\* ------------------------------------------------------------------------
\* Metered routes: properties
\* ------------------------------------------------------------------------
\* C36: a request that verifyApiKey lets through has lowered the key's budget
\* by one before its handler runs, whatever the handler then answers (200,
\* 404 or 400), and the budget is not above that value when the response is
\* sent; no step of a route raises a stored budget.
C36_ConsumedBeforeHandlerNoRefund ==
    /\ [](\A r \in responses :
              r.passed => /\ r.remainingRequests = r.before - 1
                          /\ r.left <= r.before - 1)
    /\ [](\A c \in Callers :
              routeCalls[c].pc # "idle"
                  => /\ routeCalls[c].remainingRequests = routeCalls[c].before - 1
                     /\ budgetOf(apiKeys, routeCalls[c].apiKey) <= routeCalls[c].before - 1)
    /\ [][\A k \in DOMAIN apiKeys :
             apiKeys'[k].remainingRequests <= apiKeys[k].remainingRequests]_vars

\* A key has answered 404 for an unknown earthquake id and 400 for an invalid
\* body, each time one request poorer, and its budget is spent.
C36_Witness ==
    \E r, q \in responses :
        /\ r.apiKey = q.apiKey /\ r.apiKey \in DOMAIN apiKeys
        /\ r.passed /\ r.status = 404 /\ r.route = "financial-impact"
        /\ q.passed /\ q.status = 400 /\ q.route = "bulk-financial-impact"
        /\ r.before = 2 /\ q.before = 1
        /\ apiKeys[r.apiKey].remainingRequests = 0
        /\ \A c \in Callers : routeCalls[c].pc = "idle"

Init ==
    /\ InitRoutes
    /\ InitGovernance
    /\ InitAlertSubscription
    /\ InitData
    /\ InitCorrelate
    /\ InitEnterprise
    /\ InitRange
    /\ InitScoring
    /\ InitAccess
    /\ InitOracle
    /\ InitScore
    /\ InitIngest

NextAccess ==
    \/ Tick
    \/ CreateApiKey
    \/ \E apiKey \in HeaderValues : Arrive(apiKey)
    \/ \E apiKey \in HeaderValues : VerifyApiKey(apiKey)

NextValidate ==
    \/ NextAccess
    \/ \E apiKey \in ApiKeyNames : ValidateApiKey(apiKey)

NextAccessApi ==
    \/ NextAccess
    \/ \E apiKey \in ApiKeyNames : RecordApiRequestDirect(apiKey)

SpecAccess == Init /\ [][NextAccess]_vars

SpecValidate == Init /\ [][NextValidate]_vars

SpecAccessApi == Init /\ [][NextAccessApi]_vars

SpecOracle == Init /\ [][NextOracle]_vars

SpecScore == Init /\ [][NextScore]_vars

SpecIngest == Init /\ [][NextIngest]_vars

SpecIngestIds == Init /\ [][NextIngestIds]_vars

SpecAlerts == Init /\ [][NextAlerts]_vars

SpecVerify == Init /\ [][NextVerify]_vars

SpecCorrelate == Init /\ [][NextCorrelate]_vars

SpecScoring == Init /\ [][NextScoring]_vars

SpecRange == Init /\ [][NextRange]_vars

SpecEnterprise == Init /\ [][NextEnterprise]_vars

SpecRoutes == Init /\ [][NextRoutes]_vars

SpecData == Init /\ [][NextData]_vars

SpecGovernance == Init /\ [][NextGovernance]_vars

SpecAlertSubscription == Init /\ [][NextAlertSubscription]_vars

\* The access controller and the contract share no state: a run of SpecQuota
\* is a run of one of them, the other staying as constructed.
NextQuota ==
    \/ InitOracle /\ NextAccess
    \/ InitAccess /\ NextOracle

SpecQuota == Init /\ [][NextQuota]_vars

====
